---- MODULE Spec2Model ----
(***************************************************************************)
(* The queue-message reducer of voyager-message (QueueMsg::handle) and its *)
(* helper flatten_seq, as a state machine.                                 *)
(*                                                                         *)
(* A queue message is a record with a "type" field naming the variant of   *)
(* the enum QueueMsg and the fields of that variant.  Option<QueueMsg> is  *)
(* the message itself or None.  A step of the reducer is the set-valued    *)
(* operator handle(self, t): one result for every outcome the handler it   *)
(* reaches can have, t being the reading of now() when the step starts.    *)
(* A result carries the clock when the step ends and the effects of the    *)
(* step (handler calls and tracing records) in the order they happened.    *)
(* The depth argument of handle only feeds tracing and is left out.        *)
(***************************************************************************)
EXTENDS Integers, Sequences, FiniteSets, Bags, TLC

VARIABLES
    msg,      \* the message the run loop holds (None once the workflow ended)
    status,   \* "running", "done" (no successor) or "error" (a step returned Err)
    clock,    \* now(): unix seconds
    init,     \* the message the workflow started from
    last,     \* the last step: its input, the clock it started at, its result
    trace,    \* every effect of every step so far, in order
    fin,      \* flatten_seq harness: the input
    fout,     \* flatten_seq harness: results of applying flatten_seq repeatedly
    fstage,   \* flatten_seq harness: how many times flatten_seq was applied
    sin,      \* serde harness: the value to serialize
    sjson,    \* serde harness: its JSON serialization
    sback,    \* serde harness: the result of deserializing sjson
    sstage,   \* serde harness: 0 (input), 1 (serialized), 2 (deserialized)
    overflow_checks,  \* whether the build panics on integer overflow (it wraps otherwise)
    chains,   \* get_chain harness: the Store (struct Chains)
    lookup,   \* get_chain harness: the last call of get_chain and what it gave
    cin,      \* conversion harness: the value to convert
    cany,     \* conversion harness: the any-type value made from it (From)
    cout      \* conversion harness: the result of try_from

vars == <<msg, status, clock, init, last, trace, fin, fout, fstage,
          sin, sjson, sback, sstage, overflow_checks, chains, lookup, cin, cany, cout>>

----------------------------------------------------------------------------
(* Bounds of the model. *)

MaxGen == 1        \* how many generations of successors a handler chain may return
MaxClock == 9      \* the clock stops advancing here
MaxDelay == 1      \* seconds a suspending handler may take
MaxRetry == 2      \* largest Retry.remaining of an initial workflow
MaxTimes == 2      \* largest Repeat.times of an initial workflow
Width == 5         \* bits of the model's u64 (64 in the program)

(* u64 values are 0 .. U64Modulus - 1. *)
U64Modulus == 2 ^ Width

(* Program constants. *)
RETRY_DELAY_SECONDS == 3
U8Max == 255       \* largest value of Retry.remaining (u8)
SleepSeconds == 1
StartClock == 1

----------------------------------------------------------------------------
(* QueueMsg and its constructors (mod ctors). *)

None == [type |-> "None"]
IsSome(o) == o.type # "None"

Event(e) == [type |-> "Event", p |-> e]
Data(d) == [type |-> "Data", p |-> d]
Fetch(f) == [type |-> "Fetch", p |-> f]
Msg(m) == [type |-> "Msg", p |-> m]
Wait(w) == [type |-> "Wait", p |-> w]
Noop == [type |-> "Noop"]

retry(count, t) == [type |-> "Retry", remaining |-> count, msg |-> t]
repeat(times, t) == [type |-> "Repeat", times |-> times, msg |-> t]
seq(ts) == [type |-> "Sequence", queue |-> ts]
defer(timestamp) == [type |-> "DeferUntil", point |-> "Absolute", seconds |-> timestamp]
defer_relative(seconds) == [type |-> "DeferUntil", point |-> "Relative", seconds |-> seconds]
timeout(ts, t) == [type |-> "Timeout", timeout_timestamp |-> ts, msg |-> t]
aggregate(queue, data, receiver) ==
    [type |-> "Aggregate", queue |-> queue, data |-> data, receiver |-> receiver]

(* A payload: a name and the number of generations of successors its
   handler may still return. *)
P(n, g) == [n |-> n, g |-> g]

----------------------------------------------------------------------------
(* flatten_seq *)

RECURSIVE flatten(_)
RECURSIVE flat_map(_)

flat_map(q) == IF q = <<>> THEN <<>> ELSE flatten(Head(q)) \o flat_map(Tail(q))

(* Mutant of flatten: only the outermost Sequence is opened. *)
flattenOneLevel(m) == IF m.type = "Sequence" THEN m.queue ELSE <<m>>

(* Mutant of flatten: the elements of a Sequence are visited last to first. *)
flattenReversed(m) ==
    IF m.type = "Sequence"
    THEN flat_map([i \in 1..Len(m.queue) |-> m.queue[Len(m.queue) + 1 - i]])
    ELSE <<m>>

(* Mutant of flatten: a Sequence held by a Repeat, a Retry or a Timeout is
   flattened too. *)
flattenIntoHolders(m) ==
    IF m.type = "Sequence"
    THEN flat_map(m.queue)
    ELSE IF m.type \in {"Repeat", "Retry", "Timeout"} /\ m.msg.type = "Sequence"
         THEN <<[m EXCEPT !.msg = seq(flat_map(m.msg.queue))]>>
         ELSE <<m>>

flatten(m) == IF m.type = "Sequence" THEN flat_map(m.queue) ELSE <<m>>

(* Mutant of flatten_seq: a single remaining message stays wrapped. *)
flatten_seqNoCollapse(m) == seq(flatten(m))

flatten_seq(m) ==
    LET msgs == flatten(m)
    IN  IF Len(msgs) = 1 THEN msgs[1] ELSE seq(msgs)

----------------------------------------------------------------------------
(* Results of a step: Result<Option<QueueMsg>, Box<dyn Error>>, with the
   clock at the end of the step and the effects of the step. *)

NoErr == [by |-> P("", 0), recoverable |-> FALSE]
Error(p, recoverable) == [by |-> p, recoverable |-> recoverable]

Ok(val, t, log) == [ok |-> TRUE, val |-> val, err |-> NoErr, clock |-> t, log |-> log]
Err(e, t, log) == [ok |-> FALSE, val |-> None, err |-> e, clock |-> t, log |-> log]

(* A panic of the step: it is not a value of the Result and unwinds through
   every frame of handle. *)
Panicked == [by |-> P("panic", 0), recoverable |-> FALSE]
Panic(t, log) == [ok |-> FALSE, val |-> None, err |-> Panicked, clock |-> t, log |-> log]

(* An effect: a handler call with what it was given and what it returned,
   or a tracing record of the reducer. *)
Effect(kind, p, arg, ret, err, left) ==
    [kind |-> kind, p |-> p, arg |-> arg, ret |-> ret, err |-> err, left |-> left]

NoPayload == P("", 0)

----------------------------------------------------------------------------
(* The handlers the reducer calls (traits HandleEvent, HandleFetch,
   HandleWait, HandleMsg, HandleAggregate).  Their implementations are per
   chain; here a handler may return any message of Successors(p), a Msg may
   succeed or fail with a recoverable or a non-recoverable error, and a
   suspending handler may take no time or MaxDelay seconds. *)

Successors(p) ==
    {Noop, Data(P(p.n, 0))}
    \cup (IF p.g > 0
          THEN {Fetch(P(p.n, p.g - 1)),
                Msg(P(p.n, p.g - 1)),
                seq(<<Fetch(P(p.n, p.g - 1)), Wait(P(p.n, p.g - 1))>>)}
          ELSE {})

HandleEvent(e) == Successors(e)

HandleFetch(f) == {[ret |-> r, delay |-> d] : r \in Successors(f), d \in {0, MaxDelay}}

HandleWait(w) == {[ret |-> r, delay |-> d] : r \in Successors(w), d \in {0, MaxDelay}}

HandleMsg(m) ==
    {[ok |-> TRUE, err |-> NoErr, delay |-> d] : d \in {0, MaxDelay}}
    \cup {[ok |-> FALSE, err |-> Error(m, rec), delay |-> d] :
              rec \in BOOLEAN, d \in {0, MaxDelay}}

HandleAggregate(receiver, data) ==
    {Noop, Msg(P(receiver.n, 0)), Data(P(receiver.n, 0))}

----------------------------------------------------------------------------
(* QueueMsg::handle, one operator per match arm. *)

RECURSIVE handle(_, _)

EventArm(self, t) ==
    {Ok(r, t, <<Effect("Event", self.p, <<>>, r, NoErr, 0)>>) : r \in HandleEvent(self.p)}

(* Mutant of DataArm: stray data is an error of the step. *)
DataArmFails(self, t) ==
    {Err(Error(self.p, FALSE), t, <<Effect("StrayData", self.p, <<>>, None, NoErr, 0)>>)}

DataArm(self, t) ==
    {Ok(None, t, <<Effect("StrayData", self.p, <<>>, None, NoErr, 0)>>)}

(* Mutant of FetchArm: a Noop returned by the handler is dropped at once. *)
FetchArmDropNoop(self, t) ==
    {Ok(IF o.ret = Noop THEN None ELSE o.ret, t + o.delay,
        <<Effect("Fetch", self.p, <<>>, o.ret, NoErr, 0)>>) :
        o \in HandleFetch(self.p)}

FetchArm(self, t) ==
    {Ok(o.ret, t + o.delay, <<Effect("Fetch", self.p, <<>>, o.ret, NoErr, 0)>>) :
        o \in HandleFetch(self.p)}

(* Mutant of MsgArm: the handler's error is swallowed. *)
MsgArmSwallow(self, t) ==
    {Ok(None, t + o.delay, <<Effect("Msg", self.p, <<>>, None, o.err, 0)>>) :
        o \in HandleMsg(self.p)}

MsgArm(self, t) ==
    {IF o.ok
     THEN Ok(None, t + o.delay, <<Effect("Msg", self.p, <<>>, None, NoErr, 0)>>)
     ELSE Err(o.err, t + o.delay, <<Effect("Msg", self.p, <<>>, None, o.err, 0)>>) :
        o \in HandleMsg(self.p)}

WaitArm(self, t) ==
    {Ok(o.ret, t + o.delay, <<Effect("Wait", self.p, <<>>, o.ret, NoErr, 0)>>) :
        o \in HandleWait(self.p)}

(* Mutant of DeferRelativeArm: the seconds are taken as the absolute target. *)
DeferRelativeArmNoAdd(self, t) == {Ok(defer(self.seconds), t, <<>>)}

(* now() + seconds in u64: the sum when it fits; otherwise a panic in a build
   with overflow checks and the sum modulo 2^64 in a build without. *)
DeferRelativeArm(self, t) ==
    IF t + self.seconds < U64Modulus
    THEN {Ok(defer(t + self.seconds), t, <<>>)}
    ELSE IF overflow_checks
         THEN {Panic(t, <<>>)}
         ELSE {Ok(defer((t + self.seconds) % U64Modulus), t, <<>>)}

(* Mutant of DeferAbsoluteArm: the deferral is dropped one second early. *)
DeferAbsoluteArmEarly(self, t) ==
    IF t + 1 < self.seconds
    THEN {Ok(defer(self.seconds), t + SleepSeconds, <<>>)}
    ELSE {Ok(None, t, <<>>)}

DeferAbsoluteArm(self, t) ==
    IF t < self.seconds
    THEN {Ok(defer(self.seconds), t + SleepSeconds, <<>>)}
    ELSE {Ok(None, t, <<>>)}

(* Mutant of TimeoutArm: the successor of the inner message stays under the
   Timeout. *)
TimeoutArmRewrap(self, t) ==
    IF t > self.timeout_timestamp
    THEN {Ok(None, t, <<Effect("Expired", NoPayload, <<>>, self.msg, NoErr, 0)>>)}
    ELSE {IF r.ok /\ IsSome(r.val)
          THEN Ok(timeout(self.timeout_timestamp, r.val), r.clock, r.log)
          ELSE r :
             r \in handle(self.msg, t)}

(* Mutant of TimeoutArm: a Timeout expires already when now() equals the
   deadline. *)
TimeoutArmInclusive(self, t) ==
    IF t >= self.timeout_timestamp
    THEN {Ok(None, t, <<Effect("Expired", NoPayload, <<>>, self.msg, NoErr, 0)>>)}
    ELSE handle(self.msg, t)

(* Mutant of TimeoutArm: the deadline is checked again when the inner step
   has completed. *)
TimeoutArmAtCompletion(self, t) ==
    IF t > self.timeout_timestamp
    THEN {Ok(None, t, <<Effect("Expired", NoPayload, <<>>, self.msg, NoErr, 0)>>)}
    ELSE {IF r.clock > self.timeout_timestamp
          THEN Ok(None, r.clock,
                  r.log \o <<Effect("Expired", NoPayload, <<>>, self.msg, NoErr, 0)>>)
          ELSE r :
             r \in handle(self.msg, t)}

TimeoutArm(self, t) ==
    IF t > self.timeout_timestamp
    THEN {Ok(None, t, <<Effect("Expired", NoPayload, <<>>, self.msg, NoErr, 0)>>)}
    ELSE handle(self.msg, t)

(* Mutant of SequenceArm: when nothing is left the step returns no
   successor. *)
SequenceArmNoneWhenDone(self, t) ==
    IF self.queue = <<>>
    THEN {Ok(None, t, <<>>)}
    ELSE {IF ~r.ok
          THEN r
          ELSE IF ~IsSome(r.val) /\ Tail(self.queue) = <<>>
               THEN Ok(None, r.clock, r.log)
               ELSE Ok(flatten_seq(seq((IF IsSome(r.val) THEN <<r.val>> ELSE <<>>)
                                       \o Tail(self.queue))),
                       r.clock, r.log) :
             r \in handle(Head(self.queue), t)}

(* Mutant of SequenceArm: the head's successor is pushed to the back. *)
SequenceArmPushBack(self, t) ==
    IF self.queue = <<>>
    THEN {Ok(None, t, <<>>)}
    ELSE {IF ~r.ok
          THEN r
          ELSE Ok(flatten_seq(seq(Tail(self.queue)
                                  \o (IF IsSome(r.val) THEN <<r.val>> ELSE <<>>))),
                  r.clock, r.log) :
             r \in handle(Head(self.queue), t)}

(* Mutant of SequenceArm: the queue is returned as it is, without
   flatten_seq. *)
SequenceArmNoFlatten(self, t) ==
    IF self.queue = <<>>
    THEN {Ok(None, t, <<>>)}
    ELSE {IF ~r.ok
          THEN r
          ELSE Ok(seq((IF IsSome(r.val) THEN <<r.val>> ELSE <<>>) \o Tail(self.queue)),
                  r.clock, r.log) :
             r \in handle(Head(self.queue), t)}

(* Mutant of SequenceArm: a datum the head yields is dropped at once instead
   of being put back at the head. *)
SequenceArmDropData(self, t) ==
    IF self.queue = <<>>
    THEN {Ok(None, t, <<>>)}
    ELSE {IF ~r.ok
          THEN r
          ELSE Ok(flatten_seq(seq((IF IsSome(r.val) /\ r.val.type # "Data"
                                   THEN <<r.val>>
                                   ELSE <<>>)
                                  \o Tail(self.queue))),
                  r.clock, r.log) :
             r \in handle(Head(self.queue), t)}

SequenceArm(self, t) ==
    IF self.queue = <<>>
    THEN {Ok(None, t, <<>>)}
    ELSE {IF ~r.ok
          THEN r
          ELSE Ok(flatten_seq(seq((IF IsSome(r.val) THEN <<r.val>> ELSE <<>>)
                                  \o Tail(self.queue))),
                  r.clock, r.log) :
             r \in handle(Head(self.queue), t)}

(* Mutant of RetryArm: the successor of a successful attempt stays under the
   Retry. *)
RetryArmRewrap(self, t) ==
    {IF r.err = Panicked
     THEN r
     ELSE IF r.ok
     THEN (IF IsSome(r.val)
           THEN Ok(retry(self.remaining, r.val), r.clock, r.log)
           ELSE r)
     ELSE IF self.remaining > 0
          THEN Ok(seq(<<defer(r.clock + RETRY_DELAY_SECONDS),
                        retry(self.remaining - 1, self.msg)>>),
                  r.clock,
                  r.log \o <<Effect("RetryWarn", NoPayload, <<>>, self.msg, r.err,
                                    self.remaining - 1)>>)
          ELSE Err(r.err, r.clock,
                   r.log \o <<Effect("RetryFailed", NoPayload, <<>>, self.msg, r.err, 0)>>) :
        r \in handle(self.msg, t)}

(* Mutant of RetryArm: the retry count is not decremented. *)
RetryArmNoDecrement(self, t) ==
    {IF r.ok \/ r.err = Panicked
     THEN r
     ELSE IF self.remaining > 0
          THEN Ok(seq(<<defer(r.clock + RETRY_DELAY_SECONDS),
                        retry(self.remaining, self.msg)>>),
                  r.clock,
                  r.log \o <<Effect("RetryWarn", NoPayload, <<>>, self.msg, r.err,
                                    self.remaining)>>)
          ELSE Err(r.err, r.clock,
                   r.log \o <<Effect("RetryFailed", NoPayload, <<>>, self.msg, r.err, 0)>>) :
        r \in handle(self.msg, t)}

(* Mutant of RetryArm: the backoff is counted from the clock read before the
   attempt, not after its failure. *)
RetryArmStaleClock(self, t) ==
    {IF r.ok \/ r.err = Panicked
     THEN r
     ELSE IF self.remaining > 0
          THEN Ok(seq(<<defer(t + RETRY_DELAY_SECONDS),
                        retry(self.remaining - 1, self.msg)>>),
                  r.clock,
                  r.log \o <<Effect("RetryWarn", NoPayload, <<>>, self.msg, r.err,
                                    self.remaining - 1)>>)
          ELSE Err(r.err, r.clock,
                   r.log \o <<Effect("RetryFailed", NoPayload, <<>>, self.msg, r.err, 0)>>) :
        r \in handle(self.msg, t)}

(* Mutant of RetryArm: remaining is decremented without the test
   remaining > 0, wrapping as a u8 does. *)
RetryArmNoGuard(self, t) ==
    {IF r.ok \/ r.err = Panicked
     THEN r
     ELSE Ok(seq(<<defer(r.clock + RETRY_DELAY_SECONDS),
                   retry((self.remaining - 1) % (U8Max + 1), self.msg)>>),
             r.clock,
             r.log \o <<Effect("RetryWarn", NoPayload, <<>>, self.msg, r.err,
                               (self.remaining - 1) % (U8Max + 1))>>) :
        r \in handle(self.msg, t)}

RetryArm(self, t) ==
    {IF r.ok \/ r.err = Panicked
     THEN r
     ELSE IF self.remaining > 0
          THEN Ok(seq(<<defer(r.clock + RETRY_DELAY_SECONDS),
                        retry(self.remaining - 1, self.msg)>>),
                  r.clock,
                  r.log \o <<Effect("RetryWarn", NoPayload, <<>>, self.msg, r.err,
                                    self.remaining - 1)>>)
          ELSE Err(r.err, r.clock,
                   r.log \o <<Effect("RetryFailed", NoPayload, <<>>, self.msg, r.err, 0)>>) :
        r \in handle(self.msg, t)}

(* Mutant of AggregateArm: a successor that is not Data goes back to the
   front of the queue. *)
AggregateArmPushFront(self, t) ==
    IF self.queue # <<>>
    THEN {IF ~r.ok
          THEN r
          ELSE Ok(aggregate(
                      IF IsSome(r.val) /\ r.val.type # "Data"
                      THEN <<r.val>> \o Tail(self.queue)
                      ELSE Tail(self.queue),
                      IF IsSome(r.val) /\ r.val.type = "Data"
                      THEN Append(self.data, r.val.p)
                      ELSE self.data,
                      self.receiver),
                  r.clock, r.log) :
             r \in handle(Head(self.queue), t)}
    ELSE {Ok(r, t, <<Effect("Aggregate", self.receiver, self.data, r, NoErr, 0)>>) :
             r \in HandleAggregate(self.receiver, self.data)}

(* Mutant of AggregateArm: the receiver is called in the step that empties
   the queue. *)
AggregateArmEager(self, t) ==
    IF self.queue # <<>>
    THEN UNION {IF ~r.ok
                THEN {r}
                ELSE LET q2 == IF IsSome(r.val) /\ r.val.type # "Data"
                               THEN Append(Tail(self.queue), r.val)
                               ELSE Tail(self.queue)
                         d2 == IF IsSome(r.val) /\ r.val.type = "Data"
                               THEN Append(self.data, r.val.p)
                               ELSE self.data
                     IN  IF q2 = <<>>
                         THEN {Ok(x, r.clock,
                                  r.log \o <<Effect("Aggregate", self.receiver, d2, x,
                                                    NoErr, 0)>>) :
                                  x \in HandleAggregate(self.receiver, d2)}
                         ELSE {Ok(aggregate(q2, d2, self.receiver), r.clock, r.log)} :
                   r \in handle(Head(self.queue), t)}
    ELSE {Ok(r, t, <<Effect("Aggregate", self.receiver, self.data, r, NoErr, 0)>>) :
             r \in HandleAggregate(self.receiver, self.data)}

(* Mutant of AggregateArm: with an empty queue the Aggregate is returned as
   it is and the receiver is not called. *)
AggregateArmIdle(self, t) ==
    IF self.queue # <<>>
    THEN {IF ~r.ok
          THEN r
          ELSE Ok(aggregate(
                      IF IsSome(r.val) /\ r.val.type # "Data"
                      THEN Append(Tail(self.queue), r.val)
                      ELSE Tail(self.queue),
                      IF IsSome(r.val) /\ r.val.type = "Data"
                      THEN Append(self.data, r.val.p)
                      ELSE self.data,
                      self.receiver),
                  r.clock, r.log) :
             r \in handle(Head(self.queue), t)}
    ELSE {Ok(aggregate(self.queue, self.data, self.receiver), t, <<>>)}

(* Mutant of AggregateArm: an element whose step fails is dropped and the
   aggregation goes on. *)
AggregateArmKeepOnError(self, t) ==
    IF self.queue # <<>>
    THEN {IF ~r.ok
          THEN Ok(aggregate(Tail(self.queue), self.data, self.receiver), r.clock, r.log)
          ELSE Ok(aggregate(
                      IF IsSome(r.val) /\ r.val.type # "Data"
                      THEN Append(Tail(self.queue), r.val)
                      ELSE Tail(self.queue),
                      IF IsSome(r.val) /\ r.val.type = "Data"
                      THEN Append(self.data, r.val.p)
                      ELSE self.data,
                      self.receiver),
                  r.clock, r.log) :
             r \in handle(Head(self.queue), t)}
    ELSE {Ok(r, t, <<Effect("Aggregate", self.receiver, self.data, r, NoErr, 0)>>) :
             r \in HandleAggregate(self.receiver, self.data)}

(* Mutant of AggregateArm: the receiver is called as soon as at most one
   element is left in the queue. *)
AggregateArmEarly(self, t) ==
    IF Len(self.queue) > 1
    THEN {IF ~r.ok
          THEN r
          ELSE Ok(aggregate(
                      IF IsSome(r.val) /\ r.val.type # "Data"
                      THEN Append(Tail(self.queue), r.val)
                      ELSE Tail(self.queue),
                      IF IsSome(r.val) /\ r.val.type = "Data"
                      THEN Append(self.data, r.val.p)
                      ELSE self.data,
                      self.receiver),
                  r.clock, r.log) :
             r \in handle(Head(self.queue), t)}
    ELSE {Ok(r, t, <<Effect("Aggregate", self.receiver, self.data, r, NoErr, 0)>>) :
             r \in HandleAggregate(self.receiver, self.data)}

(* Mutant of AggregateArm: a captured datum is put before the data already
   present. *)
AggregateArmDataFront(self, t) ==
    IF self.queue # <<>>
    THEN {IF ~r.ok
          THEN r
          ELSE Ok(aggregate(
                      IF IsSome(r.val) /\ r.val.type # "Data"
                      THEN Append(Tail(self.queue), r.val)
                      ELSE Tail(self.queue),
                      IF IsSome(r.val) /\ r.val.type = "Data"
                      THEN <<r.val.p>> \o self.data
                      ELSE self.data,
                      self.receiver),
                  r.clock, r.log) :
             r \in handle(Head(self.queue), t)}
    ELSE {Ok(r, t, <<Effect("Aggregate", self.receiver, self.data, r, NoErr, 0)>>) :
             r \in HandleAggregate(self.receiver, self.data)}

AggregateArm(self, t) ==
    IF self.queue # <<>>
    THEN {IF ~r.ok
          THEN r
          ELSE Ok(aggregate(
                      IF IsSome(r.val) /\ r.val.type # "Data"
                      THEN Append(Tail(self.queue), r.val)
                      ELSE Tail(self.queue),
                      IF IsSome(r.val) /\ r.val.type = "Data"
                      THEN Append(self.data, r.val.p)
                      ELSE self.data,
                      self.receiver),
                  r.clock, r.log) :
             r \in handle(Head(self.queue), t)}
    ELSE {Ok(r, t, <<Effect("Aggregate", self.receiver, self.data, r, NoErr, 0)>>) :
             r \in HandleAggregate(self.receiver, self.data)}

(* Mutant of RepeatArm: the last repetition is skipped. *)
RepeatArmOffByOne(self, t) ==
    IF self.times <= 1
    THEN {Ok(None, t, <<>>)}
    ELSE {Ok(flatten_seq(seq(<<self.msg, repeat(self.times - 1, self.msg)>>)), t, <<>>)}

(* Mutant of RepeatArm: the largest count stands for "forever" and is not
   decremented. *)
RepeatArmForever(self, t) ==
    IF self.times = 0
    THEN {Ok(None, t, <<>>)}
    ELSE {Ok(flatten_seq(seq(<<self.msg,
                               repeat(IF self.times = U64Modulus - 1
                                      THEN self.times
                                      ELSE self.times - 1,
                                      self.msg)>>)),
             t, <<>>)}

(* Mutant of RepeatArm: the unfolding takes the first step of the body at
   once. *)
RepeatArmStepsBody(self, t) ==
    IF self.times = 0
    THEN {Ok(None, t, <<>>)}
    ELSE {IF ~r.ok
          THEN r
          ELSE Ok(flatten_seq(seq((IF IsSome(r.val) THEN <<r.val>> ELSE <<>>)
                                  \o <<repeat(self.times - 1, self.msg)>>)),
                  r.clock, r.log) :
             r \in handle(self.msg, t)}

(* Mutant of RepeatArm: a Repeat with repetitions left may also end. *)
RepeatArmEither(self, t) ==
    IF self.times = 0
    THEN {Ok(None, t, <<>>)}
    ELSE {Ok(flatten_seq(seq(<<self.msg, repeat(self.times - 1, self.msg)>>)), t, <<>>),
          Ok(None, t, <<>>)}

RepeatArm(self, t) ==
    IF self.times = 0
    THEN {Ok(None, t, <<>>)}
    ELSE {Ok(flatten_seq(seq(<<self.msg, repeat(self.times - 1, self.msg)>>)), t, <<>>)}

NoopArm(self, t) == {Ok(None, t, <<>>)}

handle(self, t) ==
    CASE self.type = "Event" -> EventArm(self, t)
      [] self.type = "Data" -> DataArm(self, t)
      [] self.type = "Fetch" -> FetchArm(self, t)
      [] self.type = "Msg" -> MsgArm(self, t)
      [] self.type = "Wait" -> WaitArm(self, t)
      [] self.type = "DeferUntil" /\ self.point = "Relative" -> DeferRelativeArm(self, t)
      [] self.type = "DeferUntil" /\ self.point # "Relative" -> DeferAbsoluteArm(self, t)
      [] self.type = "Timeout" -> TimeoutArm(self, t)
      [] self.type = "Sequence" -> SequenceArm(self, t)
      [] self.type = "Retry" -> RetryArm(self, t)
      [] self.type = "Aggregate" -> AggregateArm(self, t)
      [] self.type = "Repeat" -> RepeatArm(self, t)
      [] self.type = "Noop" -> NoopArm(self, t)

----------------------------------------------------------------------------
(* The workflows a run may start from. *)

G == MaxGen

RetryBodies ==
    {Msg(P("A", 0)),
     seq(<<Msg(P("A", 0)), Msg(P("B", 0))>>),
     timeout(MaxClock, Msg(P("A", 0))),
     retry(1, Msg(P("A", 0)))}

RepeatBodies ==
    {Event(P("A", 0)),
     seq(<<Event(P("A", 0)), defer_relative(1)>>),
     Msg(P("A", 0)),
     Noop}

TimeoutBodies ==
    {Msg(P("A", 0)), Fetch(P("A", 1)), seq(<<Event(P("A", 0)), Msg(P("B", 0))>>)}

AggregateQueues ==
    {<<>>,
     <<Fetch(P("A", G)), Fetch(P("B", 0))>>,
     <<seq(<<Fetch(P("A", 0)), Fetch(P("B", 0))>>)>>,
     <<Msg(P("A", 0)), Fetch(P("B", 0))>>,
     <<retry(1, Msg(P("A", 0))), Fetch(P("B", 0))>>,
     <<Event(P("A", 0)), timeout(StartClock, Wait(P("B", 0))), Fetch(P("C", 0))>>,
     <<aggregate(<<Fetch(P("A", 0))>>, <<>>, P("Q", 0)), Fetch(P("B", 0))>>}

SequenceQueues ==
    {<<>>,
     <<Fetch(P("A", G)), Event(P("B", 0))>>,
     <<Event(P("A", 1)), Msg(P("B", 0)), Wait(P("C", 0))>>,
     <<Data(P("Z", 0)), Fetch(P("A", 0))>>,
     <<defer_relative(2), Msg(P("A", 0))>>,
     <<Msg(P("A", 0))>>,
     <<Fetch(P("A", 0))>>,
     <<Fetch(P("A", 0)), seq(<<>>)>>,
     <<timeout(StartClock + 1, Fetch(P("A", 1))), Event(P("B", 0))>>}

Workflows ==
    {retry(n, m) : n \in 0..MaxRetry, m \in RetryBodies}
    \cup {repeat(n, m) : n \in 0..MaxTimes, m \in RepeatBodies}
    \cup {timeout(d, m) : d \in {0, StartClock, MaxClock}, m \in TimeoutBodies}
    \cup {aggregate(q, d, P("R", 0)) : q \in AggregateQueues, d \in {<<>>, <<P("Z", 0)>>}}
    \cup {seq(q) : q \in SequenceQueues}
    \cup {Event(P("A", G)), Wait(P("A", 1)), defer(StartClock + 2), defer_relative(2),
          defer_relative(U64Modulus - 1),
          repeat(U64Modulus - 1, Noop),
          seq(<<retry(1, defer_relative(U64Modulus - StartClock)), Msg(P("A", 0))>>)}

----------------------------------------------------------------------------
(* The run loop: it holds one message, steps it, and keeps the successor. *)

NoStep == [input |-> None, at |-> 0, res |-> Ok(None, 0, <<>>)]

Init ==
    /\ msg \in Workflows
    /\ init = msg
    /\ status = "running"
    /\ clock = StartClock
    /\ last = NoStep
    /\ trace = <<>>
    /\ fin = Noop
    /\ fout = <<>>
    /\ fstage = 0
    /\ sin = None
    /\ sjson = None
    /\ sback = None
    /\ sstage = 0
    /\ overflow_checks \in BOOLEAN
    /\ chains = None
    /\ lookup = None
    /\ cin = None
    /\ cany = None
    /\ cout = None

StepKind(m) ==
    IF m.type = "DeferUntil"
    THEN (IF m.point = "Relative" THEN "DeferRelative" ELSE "DeferAbsolute")
    ELSE m.type

RunStep ==
    /\ status = "running"
    /\ \E r \in handle(msg, clock) :
          /\ r.clock <= MaxClock
          /\ last' = [input |-> msg, at |-> clock, res |-> r]
          /\ clock' = r.clock
          /\ trace' = trace \o r.log
          /\ msg' = r.val
          /\ status' = IF r.err = Panicked THEN "panicked"
                        ELSE IF ~r.ok THEN "error"
                        ELSE IF IsSome(r.val) THEN "running" ELSE "done"
    /\ UNCHANGED <<init, fin, fout, fstage, sin, sjson, sback, sstage, overflow_checks,
                   chains, lookup, cin, cany, cout>>

StepEvent == StepKind(msg) = "Event" /\ RunStep
StepData == StepKind(msg) = "Data" /\ RunStep
StepFetch == StepKind(msg) = "Fetch" /\ RunStep
StepMsg == StepKind(msg) = "Msg" /\ RunStep
StepWait == StepKind(msg) = "Wait" /\ RunStep
StepDeferRelative == StepKind(msg) = "DeferRelative" /\ RunStep
StepDeferAbsolute == StepKind(msg) = "DeferAbsolute" /\ RunStep
StepTimeout == StepKind(msg) = "Timeout" /\ RunStep
StepSequence == StepKind(msg) = "Sequence" /\ RunStep
StepRetry == StepKind(msg) = "Retry" /\ RunStep
StepAggregate == StepKind(msg) = "Aggregate" /\ RunStep
StepRepeat == StepKind(msg) = "Repeat" /\ RunStep
StepNoop == StepKind(msg) = "Noop" /\ RunStep

(* Wall-clock time passes between steps. *)
Tick ==
    /\ status = "running"
    /\ clock < MaxClock
    /\ clock' = clock + 1
    /\ UNCHANGED <<msg, status, init, last, trace, fin, fout, fstage,
                   sin, sjson, sback, sstage, overflow_checks,
                   chains, lookup, cin, cany, cout>>

Next ==
    \/ StepEvent
    \/ StepData
    \/ StepFetch
    \/ StepMsg
    \/ StepWait
    \/ StepDeferRelative
    \/ StepDeferAbsolute
    \/ StepTimeout
    \/ StepSequence
    \/ StepRetry
    \/ StepAggregate
    \/ StepRepeat
    \/ StepNoop
    \/ Tick

Spec == Init /\ [][Next]_vars

----------------------------------------------------------------------------
(* The run loop on an Aggregate, stepped again and again: a step of the
   message it holds is taken whenever one is possible.  Time may pass
   between steps but need not. *)

InitAggregate == Init /\ msg.type = "Aggregate"

NextAggregate ==
    \/ StepAggregate
    \/ StepData
    \/ StepMsg
    \/ StepNoop
    \/ Tick

SpecAggregate == InitAggregate /\ [][NextAggregate]_vars /\ WF_vars(StepAggregate)

----------------------------------------------------------------------------
(* The run loop on a Repeat, stepped again and again: the message it holds is
   a Repeat or the Sequence of an unfolding, and a step is taken whenever one
   is possible. *)

InitRepeat == Init /\ msg.type = "Repeat"

NextRepeat ==
    \/ StepRepeat
    \/ StepSequence
    \/ Tick

SpecRepeat ==
    InitRepeat /\ [][NextRepeat]_vars /\ WF_vars(StepRepeat) /\ WF_vars(StepSequence)

----------------------------------------------------------------------------
(* The flatten_seq harness: flatten_seq applied to an input, then to its
   own result. *)

MaxLen == 2        \* longest Sequence the harness builds at each level

(* Sequences that are not in normal form, held by a Retry, a Timeout and an
   Aggregate, among nested and empty Sequences. *)
HolderExample ==
    seq(<<seq(<<retry(1, seq(<<seq(<<defer(1)>>)>>)), seq(<<>>)>>),
          timeout(2, seq(<<defer(1)>>)),
          seq(<<seq(<<>>), aggregate(<<seq(<<seq(<<>>)>>)>>, <<>>, P("R", 0))>>)>>)

FlattenAtoms == {defer(1), Noop, repeat(1, seq(<<seq(<<defer(2)>>)>>))}

SeqsOver(S) == {seq(q) : q \in UNION {[1..k -> S] : k \in 0..MaxLen}}

FlattenLevel1 == FlattenAtoms \cup SeqsOver(FlattenAtoms)

FlattenLevel2 == FlattenAtoms \cup SeqsOver(FlattenLevel1)

FlattenInputs ==
    FlattenLevel2
    \cup {seq(<<seq(<<seq(<<seq(<<>>)>>)>>)>>),
          seq(<<seq(<<seq(<<seq(<<defer(1)>>)>>), defer(2)>>), seq(<<>>)>>),
          seq(<<defer(1), seq(<<defer(2), defer(3)>>), seq(<<defer(4)>>), defer(5)>>),
          HolderExample,
          retry(1, seq(<<seq(<<>>)>>)),
          seq(<<seq(<<>>), timeout(2, seq(<<defer(1)>>)), seq(<<seq(<<>>)>>)>>)}

FlattenInit ==
    /\ fin \in FlattenInputs
    /\ fout = <<>>
    /\ fstage = 0
    /\ msg = None
    /\ init = None
    /\ status = "done"
    /\ clock = StartClock
    /\ last = NoStep
    /\ trace = <<>>
    /\ sin = None
    /\ sjson = None
    /\ sback = None
    /\ sstage = 0
    /\ overflow_checks = FALSE
    /\ chains = None
    /\ lookup = None
    /\ cin = None
    /\ cany = None
    /\ cout = None

ApplyFlatten ==
    /\ fstage < 2
    /\ fout' = Append(fout, flatten_seq(IF fstage = 0 THEN fin ELSE fout[fstage]))
    /\ fstage' = fstage + 1
    /\ UNCHANGED <<fin, msg, init, status, clock, last, trace, sin, sjson, sback, sstage,
                   overflow_checks,
                   chains, lookup, cin, cany, cout>>

FlattenNext == ApplyFlatten

SpecFlatten == FlattenInit /\ [][FlattenNext]_vars

----------------------------------------------------------------------------
(* JSON values, as serde_json builds and reads them.  An object is the list
   of its (key, value) pairs in the order they were written. *)

JStr(s) == [j |-> "str", s |-> s]
JNum(n) == [j |-> "num", n |-> n]
JArr(a) == [j |-> "arr", a |-> a]
JObj(o) == [j |-> "obj", o |-> o]

Keys(o) == {o[i][1] : i \in DOMAIN o}
HasField(o, k) == k \in Keys(o)
Field(o, k) == o[CHOOSE i \in DOMAIN o : o[i][1] = k][2]

(* A JSON object with exactly these fields (deny_unknown_fields, and every
   field required). *)
IsStruct(c, fields) == c.j = "obj" /\ Keys(c.o) = fields /\ Len(c.o) = Cardinality(fields)

IsU64(c) == c.j = "num" /\ c.n >= 0
IsU8(c) == c.j = "num" /\ c.n >= 0 /\ c.n <= U8Max

(* Results of deserialization. *)
DeOk(v) == [ok |-> TRUE, val |-> v]
DeErr == [ok |-> FALSE, val |-> None]

----------------------------------------------------------------------------
(* AnyLightClientIdentified: an Identified value of one of six chain pairs,
   written through the untagged enum AnyLightClientIdentifiedSerde of Inner
   structs. *)

Variants ==
    <<"EvmMainnetOnUnion", "UnionOnEvmMainnet", "EvmMinimalOnUnion",
      "UnionOnEvmMinimal", "CosmosOnUnion", "UnionOnCosmos">>

(* The host chain and the tracked chain of a variant. *)
HostOf(v) ==
    CASE v = "EvmMainnetOnUnion" -> "Wasm<Union>"
      [] v = "UnionOnEvmMainnet" -> "Evm<Mainnet>"
      [] v = "EvmMinimalOnUnion" -> "Wasm<Union>"
      [] v = "UnionOnEvmMinimal" -> "Evm<Minimal>"
      [] v = "CosmosOnUnion" -> "Union"
      [] v = "UnionOnCosmos" -> "Wasm<Cosmos>"

TrackingOf(v) ==
    CASE v = "EvmMainnetOnUnion" -> "Evm<Mainnet>"
      [] v = "UnionOnEvmMainnet" -> "Wasm<Union>"
      [] v = "EvmMinimalOnUnion" -> "Evm<Minimal>"
      [] v = "UnionOnEvmMinimal" -> "Wasm<Union>"
      [] v = "CosmosOnUnion" -> "Wasm<Cosmos>"
      [] v = "UnionOnCosmos" -> "Union"

(* The string a chain's ChainType is written as (FromStrExact::EXPECTING of
   the chain crates). *)
ChainTypeTag(chain) ==
    CASE chain = "Union" -> "union"
      [] chain = "Cosmos" -> "cosmos"
      [] chain = "Evm<Mainnet>" -> "eth-mainnet"
      [] chain = "Evm<Minimal>" -> "eth-minimal"

(* Chain::ChainType: Wasm<Hc> has the chain type of Hc. *)
ChainType(chain) ==
    CASE chain = "Wasm<Union>" -> ChainTypeTag("Union")
      [] chain = "Wasm<Cosmos>" -> ChainTypeTag("Cosmos")
      [] OTHER -> ChainTypeTag(chain)

Identified(v, chain_id, t) == [variant |-> v, chain_id |-> chain_id, t |-> t]

(* Serialize for Identified and for Inner (Inner::new fills in the tags). *)
identified_to_json(a) ==
    JObj(<< <<"chain_id", JStr(a.chain_id)>>, <<"t", JStr(a.t)>> >>)

any_to_json(a) ==
    JObj(<< <<"@host_chain", JStr(ChainType(HostOf(a.variant)))>>,
            <<"@tracking", JStr(ChainType(TrackingOf(a.variant)))>>,
            <<"@value", identified_to_json(a)>> >>)

(* Mutant of inner_from_json: the @tracking tag is not compared. *)
inner_from_jsonHostOnly(v, c) ==
    IF /\ IsStruct(c, {"@host_chain", "@tracking", "@value"})
       /\ Field(c.o, "@host_chain") = JStr(ChainType(HostOf(v)))
       /\ IsStruct(Field(c.o, "@value"), {"chain_id", "t"})
       /\ Field(Field(c.o, "@value").o, "chain_id").j = "str"
       /\ Field(Field(c.o, "@value").o, "t").j = "str"
    THEN DeOk(Identified(v, Field(Field(c.o, "@value").o, "chain_id").s,
                         Field(Field(c.o, "@value").o, "t").s))
    ELSE DeErr

(* Deserialize for Inner<Hc, Tr, Identified<..>> of variant v: from_str_exact
   accepts a tag only when it is the chain type's own string. *)
inner_from_json(v, c) ==
    IF /\ IsStruct(c, {"@host_chain", "@tracking", "@value"})
       /\ Field(c.o, "@host_chain") = JStr(ChainType(HostOf(v)))
       /\ Field(c.o, "@tracking") = JStr(ChainType(TrackingOf(v)))
       /\ IsStruct(Field(c.o, "@value"), {"chain_id", "t"})
       /\ Field(Field(c.o, "@value").o, "chain_id").j = "str"
       /\ Field(Field(c.o, "@value").o, "t").j = "str"
    THEN DeOk(Identified(v, Field(Field(c.o, "@value").o, "chain_id").s,
                         Field(Field(c.o, "@value").o, "t").s))
    ELSE DeErr

(* Deserialize for the untagged enum: the first variant, in declaration
   order, that accepts the value. *)
any_from_json(c) ==
    LET accept == {i \in DOMAIN Variants : inner_from_json(Variants[i], c).ok}
    IN  IF accept = {}
        THEN DeErr
        ELSE inner_from_json(Variants[CHOOSE i \in accept : \A k \in accept : i <= k], c)

----------------------------------------------------------------------------
(* Serialize and Deserialize of QueueMsg: adjacently tagged ("@type",
   "@value"), variant names in snake_case, unknown fields denied. *)

snake_case(name) ==
    CASE name = "Event" -> "event"
      [] name = "Data" -> "data"
      [] name = "Fetch" -> "fetch"
      [] name = "Msg" -> "msg"
      [] name = "Wait" -> "wait"
      [] name = "DeferUntil" -> "defer_until"
      [] name = "Repeat" -> "repeat"
      [] name = "Timeout" -> "timeout"
      [] name = "Sequence" -> "sequence"
      [] name = "Retry" -> "retry"
      [] name = "Aggregate" -> "aggregate"
      [] name = "Noop" -> "noop"
      [] name = "Absolute" -> "absolute"
      [] name = "Relative" -> "relative"

Tagged(ty, content) ==
    JObj(<< <<"@type", JStr(snake_case(ty))>>, <<"@value", content>> >>)

RECURSIVE to_json(_)
to_json(m) ==
    CASE m.type \in {"Event", "Data", "Fetch", "Msg", "Wait"} ->
            Tagged(m.type, any_to_json(m.p))
      [] m.type = "DeferUntil" ->
            Tagged(m.type, JObj(<< <<"point", JStr(snake_case(m.point))>>,
                                   <<"seconds", JNum(m.seconds)>> >>))
      [] m.type = "Repeat" ->
            Tagged(m.type, JObj(<< <<"times", JNum(m.times)>>,
                                   <<"msg", to_json(m.msg)>> >>))
      [] m.type = "Timeout" ->
            Tagged(m.type, JObj(<< <<"timeout_timestamp", JNum(m.timeout_timestamp)>>,
                                   <<"msg", to_json(m.msg)>> >>))
      [] m.type = "Sequence" ->
            Tagged(m.type, JArr([i \in DOMAIN m.queue |-> to_json(m.queue[i])]))
      [] m.type = "Retry" ->
            Tagged(m.type, JObj(<< <<"remaining", JNum(m.remaining)>>,
                                   <<"msg", to_json(m.msg)>> >>))
      [] m.type = "Aggregate" ->
            Tagged(m.type,
                   JObj(<< <<"queue", JArr([i \in DOMAIN m.queue |-> to_json(m.queue[i])])>>,
                           <<"data", JArr([i \in DOMAIN m.data |-> any_to_json(m.data[i])])>>,
                           <<"receiver", any_to_json(m.receiver)>> >>))
      [] m.type = "Noop" -> JObj(<< <<"@type", JStr(snake_case(m.type))>> >>)

(* A JSON array all of whose elements deserialize. *)
AllOk(rs) == \A i \in DOMAIN rs : rs[i].ok
Vals(rs) == [i \in DOMAIN rs |-> rs[i].val]

(* Mutant of unit_from_json: a variant without content is not accepted. *)
unit_from_jsonStrict(o, v) == DeErr

(* Deserialize of a unit variant: there is no "@value". *)
unit_from_json(o, v) == IF HasField(o, "@value") THEN DeErr ELSE DeOk(v)

RECURSIVE from_json(_)

(* Deserialize of the content c of the variant written as tag. *)
content_from_json(tag, c) ==
    CASE tag \in {"event", "data", "fetch", "msg", "wait"} ->
            LET r == any_from_json(c)
            IN  IF ~r.ok THEN DeErr
                ELSE DeOk(CASE tag = "event" -> Event(r.val)
                            [] tag = "data" -> Data(r.val)
                            [] tag = "fetch" -> Fetch(r.val)
                            [] tag = "msg" -> Msg(r.val)
                            [] tag = "wait" -> Wait(r.val))
      [] tag = "defer_until" ->
            IF IsStruct(c, {"point", "seconds"}) /\ IsU64(Field(c.o, "seconds"))
            THEN (CASE Field(c.o, "point") = JStr("absolute") ->
                          DeOk(defer(Field(c.o, "seconds").n))
                    [] Field(c.o, "point") = JStr("relative") ->
                          DeOk(defer_relative(Field(c.o, "seconds").n))
                    [] OTHER -> DeErr)
            ELSE DeErr
      [] tag = "repeat" ->
            IF IsStruct(c, {"times", "msg"}) /\ IsU64(Field(c.o, "times"))
               /\ from_json(Field(c.o, "msg")).ok
            THEN DeOk(repeat(Field(c.o, "times").n, from_json(Field(c.o, "msg")).val))
            ELSE DeErr
      [] tag = "timeout" ->
            IF IsStruct(c, {"timeout_timestamp", "msg"})
               /\ IsU64(Field(c.o, "timeout_timestamp"))
               /\ from_json(Field(c.o, "msg")).ok
            THEN DeOk(timeout(Field(c.o, "timeout_timestamp").n,
                              from_json(Field(c.o, "msg")).val))
            ELSE DeErr
      [] tag = "sequence" ->
            IF c.j = "arr" /\ AllOk([i \in DOMAIN c.a |-> from_json(c.a[i])])
            THEN DeOk(seq(Vals([i \in DOMAIN c.a |-> from_json(c.a[i])])))
            ELSE DeErr
      [] tag = "retry" ->
            IF IsStruct(c, {"remaining", "msg"}) /\ IsU8(Field(c.o, "remaining"))
               /\ from_json(Field(c.o, "msg")).ok
            THEN DeOk(retry(Field(c.o, "remaining").n, from_json(Field(c.o, "msg")).val))
            ELSE DeErr
      [] tag = "aggregate" ->
            IF /\ IsStruct(c, {"queue", "data", "receiver"})
               /\ Field(c.o, "queue").j = "arr"
               /\ Field(c.o, "data").j = "arr"
               /\ AllOk([i \in DOMAIN Field(c.o, "queue").a |->
                             from_json(Field(c.o, "queue").a[i])])
               /\ AllOk([i \in DOMAIN Field(c.o, "data").a |->
                             any_from_json(Field(c.o, "data").a[i])])
               /\ any_from_json(Field(c.o, "receiver")).ok
            THEN DeOk(aggregate(
                     Vals([i \in DOMAIN Field(c.o, "queue").a |->
                              from_json(Field(c.o, "queue").a[i])]),
                     Vals([i \in DOMAIN Field(c.o, "data").a |->
                              any_from_json(Field(c.o, "data").a[i])]),
                     any_from_json(Field(c.o, "receiver")).val))
            ELSE DeErr
      [] OTHER -> DeErr

from_json(c) ==
    IF ~(/\ c.j = "obj"
         /\ Keys(c.o) \subseteq {"@type", "@value"}
         /\ Len(c.o) = Cardinality(Keys(c.o))
         /\ HasField(c.o, "@type")
         /\ Field(c.o, "@type").j = "str")
    THEN DeErr
    ELSE IF Field(c.o, "@type").s = "noop"
         THEN unit_from_json(c.o, Noop)
         ELSE IF HasField(c.o, "@value")
              THEN content_from_json(Field(c.o, "@type").s, Field(c.o, "@value"))
              ELSE DeErr

----------------------------------------------------------------------------
(* The serde harness: a value is serialized, then its JSON is deserialized
   (tests::print_json).  The value is a queue message or a bare
   AnyLightClientIdentified. *)

ChainIds == {"union-devnet-1", "32382"}

AnyValues == {Identified(Variants[i], c, "t") : i \in DOMAIN Variants, c \in ChainIds}

AnyOf(v) == Identified(v, "union-devnet-1", "t")

SerdeLeaves ==
    {Event(a) : a \in AnyValues}
    \cup {Data(a) : a \in AnyValues}
    \cup {Fetch(a) : a \in AnyValues}
    \cup {Msg(a) : a \in AnyValues}
    \cup {Wait(a) : a \in AnyValues}
    \cup {Noop, defer(StartClock), defer_relative(MaxDelay)}

SerdeNested ==
    {seq(<<>>),
     seq(<<Noop>>),
     seq(<<Fetch(AnyOf("UnionOnCosmos")), seq(<<defer(MaxClock), Noop>>)>>),
     repeat(MaxTimes, seq(<<Event(AnyOf("CosmosOnUnion")), defer_relative(MaxDelay)>>)),
     repeat(0, repeat(MaxTimes, Noop)),
     timeout(MaxClock, Msg(AnyOf("UnionOnEvmMinimal"))),
     retry(MaxRetry, Msg(AnyOf("EvmMinimalOnUnion"))),
     retry(U8Max, timeout(0, Noop)),
     aggregate(<<>>, <<>>, AnyOf("EvmMainnetOnUnion")),
     aggregate(<<Fetch(AnyOf("EvmMinimalOnUnion")), Wait(AnyOf("UnionOnEvmMainnet"))>>,
               <<AnyOf("EvmMinimalOnUnion"), AnyOf("EvmMainnetOnUnion")>>,
               AnyOf("UnionOnEvmMinimal")),
     aggregate(<<aggregate(<<seq(<<Fetch(AnyOf("CosmosOnUnion"))>>)>>, <<>>,
                           AnyOf("CosmosOnUnion"))>>,
               <<AnyOf("UnionOnCosmos")>>,
               AnyOf("UnionOnCosmos"))}

SerdeInputs ==
    {[kind |-> "msg", v |-> m] : m \in SerdeLeaves \cup SerdeNested}
    \cup {[kind |-> "any", v |-> a] : a \in AnyValues}

SerdeInit ==
    /\ sin \in SerdeInputs
    /\ sjson = None
    /\ sback = None
    /\ sstage = 0
    /\ msg = None
    /\ init = None
    /\ status = "done"
    /\ clock = StartClock
    /\ last = NoStep
    /\ trace = <<>>
    /\ fin = Noop
    /\ fout = <<>>
    /\ fstage = 0
    /\ overflow_checks = FALSE
    /\ chains = None
    /\ lookup = None
    /\ cin = None
    /\ cany = None
    /\ cout = None

SerializeMsg ==
    /\ sstage = 0
    /\ sin.kind = "msg"
    /\ sjson' = to_json(sin.v)
    /\ sstage' = 1
    /\ UNCHANGED <<sin, sback, msg, init, status, clock, last, trace, fin, fout, fstage,
                   overflow_checks,
                   chains, lookup, cin, cany, cout>>

DeserializeMsg ==
    /\ sstage = 1
    /\ sin.kind = "msg"
    /\ sback' = from_json(sjson)
    /\ sstage' = 2
    /\ UNCHANGED <<sin, sjson, msg, init, status, clock, last, trace, fin, fout, fstage,
                   overflow_checks,
                   chains, lookup, cin, cany, cout>>

SerializeAny ==
    /\ sstage = 0
    /\ sin.kind = "any"
    /\ sjson' = any_to_json(sin.v)
    /\ sstage' = 1
    /\ UNCHANGED <<sin, sback, msg, init, status, clock, last, trace, fin, fout, fstage,
                   overflow_checks,
                   chains, lookup, cin, cany, cout>>

DeserializeAny ==
    /\ sstage = 1
    /\ sin.kind = "any"
    /\ sback' = any_from_json(sjson)
    /\ sstage' = 2
    /\ UNCHANGED <<sin, sjson, msg, init, status, clock, last, trace, fin, fout, fstage,
                   overflow_checks,
                   chains, lookup, cin, cany, cout>>

SerdeNext ==
    \/ SerializeMsg
    \/ DeserializeMsg
    \/ SerializeAny
    \/ DeserializeAny

SpecSerde == SerdeInit /\ [][SerdeNext]_vars

----------------------------------------------------------------------------
(* The Store of the relayer: struct Chains, one HashMap from chain id to
   chain handle for each kind of chain, and GetChain, implemented for the
   five chain types the light clients use. *)

Absent == "absent"

Handles == {"h1", "h2"}

(* HashMap<ChainId, chain>: what each chain id maps to, Absent for none. *)
ChainMap == [ChainIds -> Handles \cup {Absent}]

Chains == [evm_minimal : ChainMap, evm_mainnet : ChainMap, union : ChainMap, cosmos : ChainMap]

(* HashMap::get *)
get(m, k) == IF m[k] = Absent THEN [some |-> FALSE, v |-> Absent] ELSE [some |-> TRUE, v |-> m[k]]

(* The result of get_chain: the chain, as it is or inside Wasm(..), or the
   panic of Option::unwrap on None.  get_chain has no error value. *)
Found(h, wasm) == [panicked |-> FALSE, wasm |-> wasm, chain |-> h]
LookupPanic == [panicked |-> TRUE, wasm |-> FALSE, chain |-> Absent]

unwrap_clone(o, wasm) == IF o.some THEN Found(o.v, wasm) ELSE LookupPanic

(* Mutant of get_chain: the lookup for Wasm<Union> reads the cosmos map. *)
get_chainWrongMap(self, Hc, chain_id) ==
    CASE Hc = "Wasm<Union>" -> unwrap_clone(get(self.cosmos, chain_id), TRUE)
      [] Hc = "Wasm<Cosmos>" -> unwrap_clone(get(self.cosmos, chain_id), TRUE)
      [] Hc = "Union" -> unwrap_clone(get(self.union, chain_id), FALSE)
      [] Hc = "Evm<Minimal>" -> unwrap_clone(get(self.evm_minimal, chain_id), FALSE)
      [] Hc = "Evm<Mainnet>" -> unwrap_clone(get(self.evm_mainnet, chain_id), FALSE)

get_chain(self, Hc, chain_id) ==
    CASE Hc = "Wasm<Union>" -> unwrap_clone(get(self.union, chain_id), TRUE)
      [] Hc = "Wasm<Cosmos>" -> unwrap_clone(get(self.cosmos, chain_id), TRUE)
      [] Hc = "Union" -> unwrap_clone(get(self.union, chain_id), FALSE)
      [] Hc = "Evm<Minimal>" -> unwrap_clone(get(self.evm_minimal, chain_id), FALSE)
      [] Hc = "Evm<Mainnet>" -> unwrap_clone(get(self.evm_mainnet, chain_id), FALSE)

ChainsInit ==
    /\ chains \in Chains
    /\ lookup = None
    /\ cin = None
    /\ cany = None
    /\ cout = None
    /\ sin = None
    /\ sjson = None
    /\ sback = None
    /\ sstage = 0
    /\ msg = None
    /\ init = None
    /\ status = "done"
    /\ clock = StartClock
    /\ last = NoStep
    /\ trace = <<>>
    /\ fin = Noop
    /\ fout = <<>>
    /\ fstage = 0
    /\ overflow_checks = FALSE

(* A call of get_chain; the program does not go on after a panic. *)
GetChain(Hc) ==
    /\ IF lookup = None THEN TRUE ELSE ~lookup.res.panicked
    /\ \E chain_id \in ChainIds :
          lookup' = [type |-> "get_chain", Hc |-> Hc, chain_id |-> chain_id,
                     res |-> get_chain(chains, Hc, chain_id)]
    /\ UNCHANGED <<chains, cin, cany, cout, msg, status, clock, init, last, trace,
                   fin, fout, fstage, sin, sjson, sback, sstage, overflow_checks>>

GetChainWasmUnion == GetChain("Wasm<Union>")
GetChainWasmCosmos == GetChain("Wasm<Cosmos>")
GetChainUnion == GetChain("Union")
GetChainEvmMinimal == GetChain("Evm<Minimal>")
GetChainEvmMainnet == GetChain("Evm<Mainnet>")

ChainsNext ==
    \/ GetChainWasmUnion
    \/ GetChainWasmCosmos
    \/ GetChainUnion
    \/ GetChainEvmMinimal
    \/ GetChainEvmMainnet

SpecChains == ChainsInit /\ [][ChainsNext]_vars

----------------------------------------------------------------------------
(* Conversions out of the any-types: TryFrom<RelayerMsg> for the Data
   payload, and From / TryFrom between Identified<Hc, Tr, T> for one variant
   type T of an any_enum! enum and AnyLightClientIdentified.  A value of the
   enum is its variant and the variant's payload; Identified<Hc, Tr, T> is
   written with its type parameters as fields. *)

InnerVariants == {"A", "B"}

Enum(variant, p) == [inner |-> variant, p |-> p]

(* Identified::new *)
IdentifiedNew(Hc, Tr, chain_id, t) == [Hc |-> Hc, Tr |-> Tr, chain_id |-> chain_id, t |-> t]

ConvOk(v) == [ok |-> TRUE, v |-> v]
ConvErr(e) == [ok |-> FALSE, v |-> e]

(* The variant of AnyLightClientIdentified that holds Identified<Hc, Tr, _>. *)
VariantFor(Hc, Tr) ==
    Variants[CHOOSE i \in DOMAIN Variants :
                HostOf(Variants[i]) = Hc /\ TrackingOf(Variants[i]) = Tr]

(* From<Identified<Hc, Tr, Enum<Hc, Tr>>> for AnyLightClientIdentified. *)
any_from(id) == Identified(VariantFor(id.Hc, id.Tr), id.chain_id, id.t)

(* TryFrom<AnyLightClientIdentified> for Identified<Hc, Tr, Enum<Hc, Tr>>. *)
any_try_into(Hc, Tr, value) ==
    IF HostOf(value.variant) = Hc /\ TrackingOf(value.variant) = Tr
    THEN ConvOk(IdentifiedNew(Hc, Tr, value.chain_id, value.t))
    ELSE ConvErr(value)

(* TryFrom<Enum<Hc, Tr>> for the type of one variant. *)
enum_try_into(variant, t) == IF t.inner = variant THEN ConvOk(t.p) ELSE ConvErr(t)

(* From<Identified<Hc, Tr, VariantInner>> for AnyLightClientIdentified. *)
from_identified(variant, id) ==
    any_from(IdentifiedNew(id.Hc, id.Tr, id.chain_id, Enum(variant, id.t)))

(* Mutant of try_from_any: on a variant mismatch the error is rebuilt as the
   variant that was asked for. *)
try_from_anyLossy(Hc, Tr, variant, value) ==
    LET r == any_try_into(Hc, Tr, value)
    IN  IF ~r.ok
        THEN r
        ELSE LET e == enum_try_into(variant, r.v.t)
             IN  IF e.ok
                 THEN ConvOk(IdentifiedNew(Hc, Tr, r.v.chain_id, e.v))
                 ELSE ConvErr(any_from(IdentifiedNew(Hc, Tr, r.v.chain_id,
                                                     Enum(variant, e.v.p))))

(* TryFrom<AnyLightClientIdentified> for Identified<Hc, Tr, VariantInner>. *)
try_from_any(Hc, Tr, variant, value) ==
    LET r == any_try_into(Hc, Tr, value)
    IN  IF ~r.ok
        THEN r
        ELSE LET e == enum_try_into(variant, r.v.t)
             IN  IF e.ok
                 THEN ConvOk(IdentifiedNew(Hc, Tr, r.v.chain_id, e.v))
                 ELSE ConvErr(any_from(IdentifiedNew(Hc, Tr, r.v.chain_id, e.v)))

(* TryFrom<RelayerMsg> for AnyLightClientIdentified<AnyData>. *)
try_from_msg(value) == IF value.type = "Data" THEN ConvOk(value.p) ELSE ConvErr(value)

(* The values converted: queue messages, and Identified values of every
   light client and variant with the type they are asked back as. *)
ConvInputs ==
    {[kind |-> "msg", v |-> m] : m \in SerdeLeaves \cup SerdeNested}
    \cup {[kind |-> "identified",
           variant |-> k,
           v |-> IdentifiedNew(HostOf(Variants[i]), TrackingOf(Variants[i]), c, P("d", 0)),
           to |-> [Hc |-> HostOf(Variants[j]), Tr |-> TrackingOf(Variants[j]), variant |-> l]] :
              i \in DOMAIN Variants, j \in DOMAIN Variants,
              k \in InnerVariants, l \in InnerVariants, c \in ChainIds}

ConvInit ==
    /\ cin \in ConvInputs
    /\ cany = None
    /\ cout = None
    /\ chains = None
    /\ lookup = None
    /\ sin = None
    /\ sjson = None
    /\ sback = None
    /\ sstage = 0
    /\ msg = None
    /\ init = None
    /\ status = "done"
    /\ clock = StartClock
    /\ last = NoStep
    /\ trace = <<>>
    /\ fin = Noop
    /\ fout = <<>>
    /\ fstage = 0
    /\ overflow_checks = FALSE

ExtractData ==
    /\ cin.kind = "msg"
    /\ cout = None
    /\ cout' = try_from_msg(cin.v)
    /\ UNCHANGED <<cin, cany, chains, lookup, msg, status, clock, init, last, trace,
                   fin, fout, fstage, sin, sjson, sback, sstage, overflow_checks>>

IntoAny ==
    /\ cin.kind = "identified"
    /\ cany = None
    /\ cany' = from_identified(cin.variant, cin.v)
    /\ UNCHANGED <<cin, cout, chains, lookup, msg, status, clock, init, last, trace,
                   fin, fout, fstage, sin, sjson, sback, sstage, overflow_checks>>

TryIntoIdentified ==
    /\ cin.kind = "identified"
    /\ cany # None
    /\ cout = None
    /\ cout' = try_from_any(cin.to.Hc, cin.to.Tr, cin.to.variant, cany)
    /\ UNCHANGED <<cin, cany, chains, lookup, msg, status, clock, init, last, trace,
                   fin, fout, fstage, sin, sjson, sback, sstage, overflow_checks>>

ConvNext ==
    \/ ExtractData
    \/ IntoAny
    \/ TryIntoIdentified

SpecConv == ConvInit /\ [][ConvNext]_vars

----------------------------------------------------------------------------
(* Vocabulary of the properties. *)

HandlerKinds == {"Event", "Fetch", "Msg", "Wait", "Aggregate"}

IsHandlerCall(e) == e.kind \in HandlerKinds

IsFailure(e) == e.kind = "Msg" /\ e.err # NoErr

(* The elements of a sequence that satisfy Test, in order. *)
Filter(s, Test(_)) == SelectSeq(s, Test)

BagOfSeq(s) ==
    [x \in {s[i] : i \in DOMAIN s} |-> Cardinality({i \in DOMAIN s : s[i] = x})]

(* Whether a message is, or holds at any depth, a message of variant ty. *)
RECURSIVE Contains(_, _)
Contains(m, ty) ==
    \/ m.type = ty
    \/ m.type \in {"Repeat", "Timeout", "Retry"} /\ Contains(m.msg, ty)
    \/ m.type \in {"Sequence", "Aggregate"}
          /\ \E i \in DOMAIN m.queue : Contains(m.queue[i], ty)

(* The effects of all steps before the last one. *)
Earlier == SubSeq(trace, 1, Len(trace) - Len(last.res.log))

(* The data the handlers called in these effects returned as Data(d). *)
ProducedData(effects) ==
    LET hits == SelectSeq(effects, LAMBDA e : IsHandlerCall(e) /\ e.ret.type = "Data")
    IN  [i \in 1..Len(hits) |-> hits[i].ret.p]

----------------------------------------------------------------------------
(* C1: Aggregate completeness.  For a workflow that starts as an Aggregate
   whose queue holds no other Aggregate: when the receiver is called, the
   data it is given are, as a multiset, the initial data plus every datum a
   handler under the aggregate returned as Data(d), at whatever depth of the
   queue the handler's message was. *)
AggregateCompleteness ==
    \A i \in DOMAIN last.res.log :
        LET e == last.res.log[i]
        IN  (/\ init.type = "Aggregate"
             /\ \A j \in DOMAIN init.queue : ~Contains(init.queue[j], "Aggregate")
             /\ last.input.type = "Aggregate"
             /\ e.kind = "Aggregate"
             /\ e.p = init.receiver)
            => BagOfSeq(e.arg) = BagOfSeq(init.data \o ProducedData(Earlier))

(* C2: No data leakage.  While the workflow's Aggregate is being stepped, the
   Data arm (the "received data outside of an aggregation" path) is never
   reached for a datum that a handler under that aggregate returned. *)
NoDataLeakage ==
    \A i \in DOMAIN last.res.log :
        LET e == last.res.log[i]
        IN  (/\ init.type = "Aggregate"
             /\ last.input.type = "Aggregate"
             /\ e.kind = "StrayData")
            => ~\E j \in DOMAIN Earlier :
                   IsHandlerCall(Earlier[j]) /\ Earlier[j].ret = Data(e.p)

(* C3: Aggregation closure.  A step of an Aggregate calls its receiver only
   when its queue is empty at the start of the step, and a successful step of
   an Aggregate with a non-empty queue returns an Aggregate with the same
   receiver. *)
AggregationClosure ==
    last.input.type = "Aggregate" =>
        /\ (\E i \in DOMAIN last.res.log :
                /\ last.res.log[i].kind = "Aggregate"
                /\ last.res.log[i].p = last.input.receiver)
           => last.input.queue = <<>>
        /\ (last.input.queue # <<>> /\ last.res.ok)
           => /\ last.res.val.type = "Aggregate"
              /\ last.res.val.receiver = last.input.receiver

AggregationClosureWitness ==
    /\ last.input.type = "Aggregate"
    /\ last.input.queue = <<>>
    /\ Len(last.input.data) >= 2
    /\ Len(last.res.log) = 1
    /\ last.res.log[1].kind = "Aggregate"
    /\ Len(trace) >= 3

----------------------------------------------------------------------------
(* The name of the payload a message leads to, and the place in the initial
   Sequence of the element with that name. *)
RECURSIVE NameOf(_)
NameOf(m) ==
    IF m.type \in {"Event", "Data", "Fetch", "Msg", "Wait"} THEN m.p.n
    ELSE IF m.type \in {"Timeout", "Retry", "Repeat"} THEN NameOf(m.msg)
    ELSE ""

Pos(name) ==
    IF \E i \in DOMAIN init.queue : NameOf(init.queue[i]) = name
    THEN CHOOSE i \in DOMAIN init.queue : NameOf(init.queue[i]) = name
    ELSE 0

(* C4: Sequence head-of-line ordering.  In a run that starts from a Sequence,
   the handlers (and the stray-data path) are reached in the order of the
   elements they descend from, and at every moment the elements that were not
   reached yet are still at the end of the message, unchanged and in order:
   no element is stepped before all earlier elements and their successors
   have reduced to nothing. *)
HeadOfLine ==
    init.type = "Sequence" =>
        LET n == Len(init.queue)
            f == IF status = "running" THEN flatten(msg) ELSE <<>>
            named == SelectSeq(trace, LAMBDA e : IsHandlerCall(e) \/ e.kind = "StrayData")
        IN  /\ \A i, j \in DOMAIN named :
                   i < j => Pos(named[i].p.n) <= Pos(named[j].p.n)
            /\ \E k \in 0..n :
                   /\ Len(f) >= n - k
                   /\ SubSeq(f, Len(f) - (n - k) + 1, Len(f)) = SubSeq(init.queue, k + 1, n)
                   /\ \A i \in DOMAIN named : Pos(named[i].p.n) <= k

HeadOfLineWitness ==
    /\ init.type = "Sequence"
    /\ Len(init.queue) = 3
    /\ Len(trace) >= 4
    /\ trace[1].p.n = "A"
    /\ trace[2].p.n = "A"
    /\ trace[Len(trace)].p.n = "C"

----------------------------------------------------------------------------
(* The failures of Msg handlers among the effects, in order. *)
Failures(effects) == SelectSeq(effects, IsFailure)

(* Every handler called so far was a Msg handler that failed. *)
EveryAttemptFailed == \A i \in DOMAIN trace : IsHandlerCall(trace[i]) => IsFailure(trace[i])

(* C5: Retry unfolding.  In a run from Retry{n, m} (m holding no Retry of its
   own) in which every attempt of m fails: the k-th failure, for k = 1..n,
   produces the successor Sequence[DeferUntil{Absolute, now + 3},
   Retry{n - k, m}] and the run goes on with Retry{n - k, m}; the error
   surfaces exactly when n failures have been absorbed, on failure n + 1, and
   not before. *)
RetryUnfolding ==
    (init.type = "Retry" /\ ~Contains(init.msg, "Retry") /\ EveryAttemptFailed) =>
        LET n == init.remaining
            k == Len(Failures(trace))
        IN  /\ k <= n + 1
            /\ (status = "error") <=> (k = n + 1)
            /\ (1 <= k /\ k <= n) =>
                   /\ status = "running"
                   /\ \/ msg = retry(n - k, init.msg)
                      \/ /\ msg.type = "Sequence"
                         /\ Len(msg.queue) = 2
                         /\ msg.queue[1].type = "DeferUntil"
                         /\ msg.queue[1].point = "Absolute"
                         /\ msg.queue[2] = retry(n - k, init.msg)
            /\ (1 <= k /\ k <= n /\ Failures(last.res.log) # <<>>) =>
                   msg = seq(<<defer(last.res.clock + RETRY_DELAY_SECONDS),
                               retry(n - k, init.msg)>>)

RetryUnfoldingWitness ==
    /\ init.type = "Retry"
    /\ init.remaining = 2
    /\ init.msg.type = "Sequence"
    /\ EveryAttemptFailed
    /\ status = "error"
    /\ Len(Failures(trace)) = 3

(* C6: Retry monotonicity and exhaustion.  A step of Retry{remaining, msg}
   (msg holding no Retry of its own) whose attempt fails returns, when
   remaining > 0, the successor Sequence[DeferUntil{Absolute, T + 3},
   Retry{remaining - 1, msg}] with T the clock when the failure was observed
   and msg unchanged; when remaining = 0 it returns the attempt's error and
   no successor. *)
RetryMonotonicity ==
    \A i \in DOMAIN last.res.log :
        (/\ last.input.type = "Retry"
         /\ ~Contains(last.input.msg, "Retry")
         /\ IsFailure(last.res.log[i]))
        => IF last.input.remaining > 0
           THEN /\ last.res.ok
                /\ last.res.val = seq(<<defer(last.res.clock + RETRY_DELAY_SECONDS),
                                        retry(last.input.remaining - 1, last.input.msg)>>)
                /\ status = "running"
           ELSE /\ ~last.res.ok
                /\ last.res.val = None
                /\ last.res.err = last.res.log[i].err
                /\ status = "error"

(* The end of the chain of Retry{2, Msg(X)}: two deferred re-attempts, the
   second a handler that took time to fail, then the propagated error. *)
RetryMonotonicityWitness ==
    /\ init = retry(2, Msg(P("A", 0)))
    /\ status = "error"
    /\ last.input = retry(0, Msg(P("A", 0)))
    /\ Len(Failures(trace)) = 3
    /\ last.res.clock > last.at

(* C7: a Msg failure flagged non-recoverable propagates as an error out of a
   Retry frame even when remaining > 0; only recoverable failures are turned
   into a deferral and a re-attempt. *)
NonRecoverablePropagates ==
    \A i \in DOMAIN last.res.log :
        (/\ last.input.type = "Retry"
         /\ ~Contains(last.input.msg, "Retry")
         /\ IsFailure(last.res.log[i])
         /\ ~last.res.log[i].err.recoverable)
        => /\ ~last.res.ok
           /\ last.res.err = last.res.log[i].err

----------------------------------------------------------------------------
(* The messages handle is called on in a step of m started at t, from m
   itself down to the last message reached. *)
RECURSIVE Frames(_, _)
Frames(m, t) ==
    <<m>> \o
    (CASE m.type = "Timeout" /\ ~(t > m.timeout_timestamp) -> Frames(m.msg, t)
       [] m.type = "Sequence" /\ m.queue # <<>> -> Frames(Head(m.queue), t)
       [] m.type = "Retry" -> Frames(m.msg, t)
       [] m.type = "Aggregate" /\ m.queue # <<>> -> Frames(Head(m.queue), t)
       [] OTHER -> <<>>)

(* C8: Retry is the only combinator that catches errors.  When a Msg handler
   fails in a step of a Sequence, an Aggregate or a non-expired Timeout and
   no Retry with retries left lies between that message and the handler, the
   step returns the handler's error and no successor: the workflow ends in
   error, the rest of the Sequence or the Aggregate's queue and data are not
   returned. *)
ErrorsPropagate ==
    \A i \in DOMAIN last.res.log :
        (/\ last.input.type \in {"Sequence", "Aggregate", "Timeout"}
         /\ \A j \in DOMAIN Frames(last.input, last.at) :
                LET f == Frames(last.input, last.at)[j]
                IN  f.type = "Retry" => f.remaining = 0
         /\ IsFailure(last.res.log[i]))
        => /\ ~last.res.ok
           /\ last.res.err = last.res.log[i].err
           /\ last.res.val = None
           /\ status = "error"
           /\ msg = None

ErrorsPropagateWitness ==
    /\ last.input.type = "Aggregate"
    /\ Len(last.input.queue) >= 2
    /\ last.input.data # <<>>
    /\ Failures(last.res.log) # <<>>
    /\ status = "error"

----------------------------------------------------------------------------
(* The first message a step of m reaches that is not a Sequence. *)
RECURSIVE FirstLeaf(_)
FirstLeaf(m) ==
    IF m.type = "Sequence" /\ m.queue # <<>> THEN FirstLeaf(Head(m.queue)) ELSE m

(* The effects that start an execution of the body of the initial Repeat: the
   calls of the handler of the body's first message. *)
IsStart(e) ==
    /\ IsHandlerCall(e)
    /\ e.kind = FirstLeaf(init.msg).type
    /\ e.p = FirstLeaf(init.msg).p

(* C9: Repeat unfolding.  In a run from Repeat{n, m}, m starting with a
   handler call: m is started at most n times; the j-th start is a step of
   exactly m followed by Repeat{n - j, m}, so nothing of the execution before
   it is left; and a run that ends without a successor has started m exactly
   n times (none for n = 0). *)
RepeatUnfolding ==
    (init.type = "Repeat" /\ FirstLeaf(init.msg).type \in {"Event", "Msg"}) =>
        LET n == init.times
            starts == Len(SelectSeq(trace, IsStart))
        IN  /\ starts <= n
            /\ status = "done" => starts = n
            /\ SelectSeq(last.res.log, IsStart) # <<>> =>
                   last.input = flatten_seq(seq(<<init.msg, repeat(n - starts, init.msg)>>))

RepeatUnfoldingWitness ==
    /\ init.type = "Repeat"
    /\ init.times = 2
    /\ init.msg.type = "Sequence"
    /\ status = "done"
    /\ Len(SelectSeq(trace, IsStart)) = 2

----------------------------------------------------------------------------
(* C10: flatten_seq is idempotent: applying it to its own result changes
   nothing, for empty, singleton and nested Sequences alike. *)
FlattenIdempotent == fstage = 2 => fout[2] = fout[1]

FlattenIdempotentWitness ==
    /\ fstage = 2
    /\ fin.type = "Sequence"
    /\ \E i \in DOMAIN fin.queue :
          /\ fin.queue[i].type = "Sequence"
          /\ \E j \in DOMAIN fin.queue[i].queue : fin.queue[i].queue[j].type = "Sequence"
    /\ fout[1] # fin
    /\ fout[1].type = "Sequence"
    /\ Len(fout[1].queue) >= 2

----------------------------------------------------------------------------
(* The non-Sequence messages of m in the order of a left-to-right pre-order
   walk through directly nested Sequences (a Sequence held by a Repeat, a
   Retry, a Timeout or an Aggregate is not walked into). *)
RECURSIVE Leaves(_)
Leaves(m) ==
    IF m.type # "Sequence" THEN <<m>>
    ELSE IF m.queue = <<>> THEN <<>>
    ELSE Leaves(Head(m.queue)) \o Leaves(seq(Tail(m.queue)))

FlattenExample ==
    seq(<<defer(1), seq(<<defer(2), defer(3)>>), seq(<<defer(4)>>), defer(5)>>)

(* C11: flatten_seq preserves order: the leaves of the result are the leaves
   of the input, in the same order; the example of the test becomes
   Sequence[Defer(1), Defer(2), Defer(3), Defer(4), Defer(5)]. *)
FlattenPreservesOrder ==
    fstage >= 1 =>
        /\ Leaves(fout[1]) = Leaves(fin)
        /\ fin = FlattenExample
               => fout[1] = seq(<<defer(1), defer(2), defer(3), defer(4), defer(5)>>)

FlattenPreservesOrderWitness ==
    /\ fstage >= 1
    /\ fin = FlattenExample
    /\ fout[1].type = "Sequence"
    /\ Len(fout[1].queue) = 5

(* C12: Sequence normal form: the result of flatten_seq is a non-Sequence
   message, or a Sequence that holds no Sequence directly and does not have
   exactly one element. *)
SequenceNormalForm ==
    fstage >= 1 =>
        (fout[1].type = "Sequence" =>
            /\ \A i \in DOMAIN fout[1].queue : fout[1].queue[i].type # "Sequence"
            /\ Len(fout[1].queue) # 1)

(* A Sequence nested in a singleton Sequence that collapses to one message. *)
SequenceNormalFormWitness ==
    /\ fstage >= 1
    /\ fin.type = "Sequence"
    /\ Len(fin.queue) = 1
    /\ fin.queue[1].type = "Sequence"
    /\ Len(Leaves(fin)) = 1
    /\ fout[1].type # "Sequence"

----------------------------------------------------------------------------
(* C13: Defer lower bound.  A step that reaches DeferUntil{Absolute, t},
   directly or as the head of a Sequence, when now() < t sleeps one second
   and returns the message it was given, the deferral still in place; when
   now() >= t the deferral returns no successor (a Sequence goes on with the
   elements after it).  No handler is called either way. *)
DeferLowerBound ==
    LET d == FirstLeaf(last.input)
    IN  (/\ last.input.type \in {"DeferUntil", "Sequence"}
         /\ d.type = "DeferUntil"
         /\ d.point = "Absolute")
        => /\ last.res.ok
           /\ last.res.log = <<>>
           /\ IF last.at < d.seconds
              THEN /\ last.res.val = flatten_seq(last.input)
                   /\ last.res.clock = last.at + SleepSeconds
                   /\ status = "running"
              ELSE /\ last.res.clock = last.at
                   /\ last.input.type = "DeferUntil" => last.res.val = None /\ status = "done"
                   /\ last.input.type = "Sequence"
                          => flatten(last.res.val) = Tail(flatten(last.input))

(* An absolute deferral polled before its time and kept. *)
DeferLowerBoundWitness ==
    /\ last.input.type = "DeferUntil"
    /\ last.input.point = "Absolute"
    /\ last.at < last.input.seconds
    /\ msg = last.input
    /\ clock = last.at + SleepSeconds
    /\ status = "running"

----------------------------------------------------------------------------
(* C14: Timeout expiry.  A step of Timeout{d, m} taken when now() > d returns
   no successor and calls no handler, of m or of anything in m (the same when
   the expired Timeout is reached through other combinators); taken when
   now() <= d, now() = d included, it is a step of m. *)
TimeoutExpiry ==
    /\ last.input.type = "Timeout" =>
           IF last.at > last.input.timeout_timestamp
           THEN /\ last.res.ok
                /\ last.res.val = None
                /\ last.res.clock = last.at
                /\ \A i \in DOMAIN last.res.log : ~IsHandlerCall(last.res.log[i])
                /\ status = "done"
           ELSE last.res \in handle(last.input.msg, last.at)
    /\ \A j \in DOMAIN Frames(last.input, last.at) :
           LET f == Frames(last.input, last.at)[j]
           IN  (f.type = "Timeout" /\ last.at > f.timeout_timestamp)
               => \A i \in DOMAIN last.res.log : ~IsHandlerCall(last.res.log[i])

(* An expired Timeout over a message that has handlers to call. *)
TimeoutExpiryWitness ==
    /\ last.input.type = "Timeout"
    /\ last.at > last.input.timeout_timestamp
    /\ Contains(last.input.msg, "Msg")
    /\ Len(last.res.log) = 1
    /\ last.res.log[1].kind = "Expired"
    /\ msg = None

(* C15: the deadline of a Timeout is checked only when the Timeout is
   reduced.  If now() <= deadline when the step starts, the step is the step
   of the inner message and its result is returned, even when the clock has
   passed the deadline by the time the inner handler completes. *)
TimeoutCheckedAtReduction ==
    (/\ last.input.type = "Timeout"
     /\ last.at <= last.input.timeout_timestamp
     /\ last.res.clock > last.input.timeout_timestamp)
    => /\ last.res \in handle(last.input.msg, last.at)
       /\ \E i \in DOMAIN last.res.log : IsHandlerCall(last.res.log[i])
       /\ \A i \in DOMAIN last.res.log : last.res.log[i].kind # "Expired"
       /\ msg = last.res.val

(* A handler that completed after the deadline and whose successor is kept. *)
TimeoutCheckedAtReductionWitness ==
    /\ last.input.type = "Timeout"
    /\ last.at <= last.input.timeout_timestamp
    /\ last.res.clock > last.input.timeout_timestamp
    /\ last.input.msg.type = "Fetch"
    /\ IsSome(msg)
    /\ status = "running"

----------------------------------------------------------------------------
(* C16: Stray data.  A step of a top-level Data(d) succeeds with no
   successor: it records the orphan datum and calls no handler. *)
StrayData ==
    last.input.type = "Data" =>
        /\ last.res.ok
        /\ last.res.val = None
        /\ last.res.err = NoErr
        /\ last.res.clock = last.at
        /\ last.res.log = <<Effect("StrayData", last.input.p, <<>>, None, NoErr, 0)>>
        /\ \A i \in DOMAIN last.res.log : ~IsHandlerCall(last.res.log[i])
        /\ status = "done"
        /\ msg = None

(* A datum returned by an Event handler outside any Aggregate and dropped. *)
StrayDataWitness ==
    /\ init.type = "Event"
    /\ last.input = Data(P(init.p.n, 0))
    /\ Len(trace) = 2
    /\ trace[1].kind = "Event"
    /\ trace[2].kind = "StrayData"
    /\ status = "done"

(* C17: Msg outcome.  A step of Msg(m) calls m's handler once; it returns no
   successor when the handler succeeds and the handler's error, with no
   successor, when it fails.  A Msg step never produces a successor. *)
MsgOutcome ==
    last.input.type = "Msg" =>
        /\ Len(last.res.log) = 1
        /\ last.res.log[1].kind = "Msg"
        /\ last.res.log[1].p = last.input.p
        /\ last.res.val = None
        /\ msg = None
        /\ IF last.res.log[1].err = NoErr
           THEN last.res.ok /\ status = "done"
           ELSE /\ ~last.res.ok
                /\ last.res.err = last.res.log[1].err
                /\ status = "error"

MsgOutcomeWitness ==
    /\ last.input.type = "Msg"
    /\ ~last.res.ok
    /\ last.res.err = Error(last.input.p, TRUE)
    /\ status = "error"
    /\ Len(trace) >= 2

----------------------------------------------------------------------------
(* C18: Serde round-trip.  Deserializing the JSON serialization of a queue
   message gives back a value equal to the message, for every variant, for
   Repeat, Sequence and Aggregate values nested in one another, and for
   payloads of each of the six chain pairs. *)
SerdeRoundTrip ==
    (sstage = 2 /\ sin.kind = "msg") => sback = DeOk(sin.v)

SerdeRoundTripWitness ==
    /\ sstage = 2
    /\ sin.kind = "msg"
    /\ sin.v.type = "Aggregate"
    /\ Len(sin.v.queue) = 1
    /\ sin.v.queue[1].type = "Aggregate"
    /\ sin.v.data # <<>>
    /\ sback.ok
    /\ sjson # None

(* The (@host_chain, @tracking) pair a variant is written with. *)
TagPair(v) == <<ChainType(HostOf(v)), ChainType(TrackingOf(v))>>

(* C19: Witness coherence.  The six variants of AnyLightClientIdentified are
   written with six pairwise distinct (@host_chain, @tracking) pairs, and
   deserializing the serialization of a value of variant V gives variant V
   with the same chain_id and payload, never another variant. *)
WitnessCoherence ==
    /\ \A i, k \in DOMAIN Variants : i # k => TagPair(Variants[i]) # TagPair(Variants[k])
    /\ (sstage = 2 /\ sin.kind = "any") =>
           /\ sback.ok
           /\ sback.val.variant = sin.v.variant
           /\ sback.val.chain_id = sin.v.chain_id
           /\ sback.val.t = sin.v.t
           /\ \A i \in DOMAIN Variants :
                  inner_from_json(Variants[i], sjson).ok <=> Variants[i] = sin.v.variant

(* A value of a variant that shares its host tag with an earlier variant. *)
WitnessCoherenceWitness ==
    /\ sstage = 2
    /\ sin.kind = "any"
    /\ sin.v.variant = "CosmosOnUnion"
    /\ Field(sjson.o, "@host_chain") = JStr("union")
    /\ Field(sjson.o, "@tracking") = JStr("cosmos")
    /\ sback.ok

----------------------------------------------------------------------------
(* C20: Determinism of a step.  The outcome of a step is a function of the
   message, the readings of now() and the results of the handlers it calls:
   any step of the same message started at the same time, in which the same
   handler calls return the same results and which ends at the same time,
   has the outcome of the step that was taken (the same successor, or no
   successor, or the same error). *)
StepDeterminism ==
    last.input # None =>
        /\ last.res \in handle(last.input, last.at)
        /\ \A r \in handle(last.input, last.at) :
               (r.log = last.res.log /\ r.clock = last.res.clock)
               => /\ r.ok = last.res.ok
                  /\ r.val = last.res.val
                  /\ r.err = last.res.err

(* A step of an Aggregate that called a handler and had other outcomes, at
   the same clock, had the handler returned something else. *)
StepDeterminismWitness ==
    /\ last.input.type = "Aggregate"
    /\ last.input.queue # <<>>
    /\ \E i \in DOMAIN last.res.log : IsHandlerCall(last.res.log[i])
    /\ \E r \in handle(last.input, last.at) :
           /\ r.clock = last.res.clock
           /\ r.log # last.res.log
           /\ r.val # last.res.val

----------------------------------------------------------------------------
(* The Event handler calls among the effects. *)
Dispatches(effects) == SelectSeq(effects, LAMBDA e : e.kind = "Event")

(* Whether m is Repeat{n, Sequence[Event(E), DeferUntil{Relative, s}]}. *)
IsRepeatThenDefer(m) ==
    /\ m.type = "Repeat"
    /\ m.msg.type = "Sequence"
    /\ Len(m.msg.queue) = 2
    /\ m.msg.queue[1].type = "Event"
    /\ m.msg.queue[2].type = "DeferUntil"
    /\ m.msg.queue[2].point = "Relative"

(* C21: Repeat-then-defer loop.  In a run from Repeat{n, Sequence[Event(E),
   DeferUntil{Relative, s}]}: E is dispatched at most n times, and exactly n
   times when the run has ended; between two dispatches the message passes
   through one relative deferral, which a step turns into the absolute
   deferral of target (clock at that step) + s, and the Repeat is not opened
   again before that deferral is gone; the k-th target is at least
   start + k * s, and it is start + k * s when the k-th conversion happens
   at start + (k - 1) * s, i.e. when time only passed in the deferrals. *)
RepeatThenDefer ==
    IsRepeatThenDefer(init) =>
        LET n == init.times
            body == init.msg
            E == body.queue[1]
            s == body.queue[2].seconds
            k == Len(Dispatches(trace))
            f == IF status = "running" THEN flatten(msg) ELSE <<>>
        IN  /\ k <= n
            /\ status # "error"
            /\ status = "done" => k = n
            /\ status = "running" =>
                  \/ msg = repeat(n - k, body)
                  \/ k < n /\ f = <<E, defer_relative(s), repeat(n - k - 1, body)>>
                  \/ /\ k >= 1
                     /\ Len(f) = 3
                     /\ f[1] \in HandleEvent(E.p)
                     /\ f[2] = defer_relative(s)
                     /\ f[3] = repeat(n - k, body)
                  \/ k >= 1 /\ f = <<defer_relative(s), repeat(n - k, body)>>
                  \/ /\ k >= 1
                     /\ Len(f) = 2
                     /\ f[1].type = "DeferUntil"
                     /\ f[1].point = "Absolute"
                     /\ f[1].seconds >= StartClock + k * s
                     /\ f[1].seconds <= clock + s
                     /\ f[2] = repeat(n - k, body)
            /\ (FirstLeaf(last.input).type = "DeferUntil"
                /\ FirstLeaf(last.input).point = "Relative")
               => /\ f[1] = defer(last.at + s)
                  /\ last.at >= StartClock + (k - 1) * s
                  /\ last.at = StartClock + (k - 1) * s => f[1] = defer(StartClock + k * s)

(* The last of the deferrals of the loop run without idle time: after
   MaxTimes dispatches the target is start + MaxTimes * s. *)
RepeatThenDeferWitness ==
    /\ IsRepeatThenDefer(init)
    /\ init.times = MaxTimes
    /\ Len(Dispatches(trace)) = MaxTimes
    /\ status = "running"
    /\ msg = seq(<<defer(StartClock + MaxTimes * init.msg.queue[2].seconds),
                   repeat(0, init.msg)>>)

----------------------------------------------------------------------------
(* C22: Relative deferral conversion.  A step of DeferUntil{Relative, s}
   returns the successor DeferUntil{Absolute, now() + s} with the exact sum,
   for every u64 s and every clock: the addition neither overflows nor
   wraps. *)
RelativeConversionExact ==
    (last.input.type = "DeferUntil" /\ last.input.point = "Relative") =>
        /\ last.res.ok
        /\ last.res.val = defer(last.at + last.input.seconds)
        /\ last.at + last.input.seconds < U64Modulus

----------------------------------------------------------------------------
(* C23: Aggregate step rule.  A successful step of an Aggregate with a
   non-empty queue is a step of the front element h and of nothing else, and
   it returns the Aggregate with h popped, the other elements in their order,
   and: d appended to the data when h yields Data(d); the successor appended
   to the queue, behind the elements that were waiting, when h yields another
   message; nothing added when h yields nothing. *)
AggregateStepRule ==
    (last.input.type = "Aggregate" /\ last.input.queue # <<>> /\ last.res.ok) =>
        LET q == last.input.queue
            d == last.input.data
            rc == last.input.receiver
        IN  \E r \in handle(Head(q), last.at) :
               /\ r.ok
               /\ r.log = last.res.log
               /\ r.clock = last.res.clock
               /\ last.res.val =
                     IF ~IsSome(r.val) THEN aggregate(Tail(q), d, rc)
                     ELSE IF r.val.type = "Data" THEN aggregate(Tail(q), Append(d, r.val.p), rc)
                     ELSE aggregate(Append(Tail(q), r.val), d, rc)
               /\ msg = last.res.val

(* The front element yielded a message that went behind a waiting element. *)
AggregateStepRuleWitness ==
    /\ last.input.type = "Aggregate"
    /\ Len(last.input.queue) >= 2
    /\ last.res.ok
    /\ last.res.val.queue = Append(Tail(last.input.queue), Fetch(P("A", 0)))
    /\ last.res.val.data = last.input.data

(* C24: Sequence step rule.  A step of an empty Sequence returns no
   successor.  A successful step of a non-empty Sequence is a step of its
   head and always returns a successor: flatten_seq of the head's successor,
   if any, followed by the remaining elements; when the head yields nothing
   and no elements remain, that successor is the empty Sequence. *)
SequenceStepRule ==
    last.input.type = "Sequence" =>
        IF last.input.queue = <<>>
        THEN last.res = Ok(None, last.at, <<>>) /\ status = "done"
        ELSE last.res.ok =>
                /\ IsSome(last.res.val)
                /\ status = "running"
                /\ \E r \in handle(Head(last.input.queue), last.at) :
                      /\ r.ok
                      /\ r.log = last.res.log
                      /\ r.clock = last.res.clock
                      /\ last.res.val =
                            flatten_seq(seq((IF IsSome(r.val) THEN <<r.val>> ELSE <<>>)
                                            \o Tail(last.input.queue)))
                      /\ (~IsSome(r.val) /\ Tail(last.input.queue) = <<>>)
                            => last.res.val = seq(<<>>)

(* The only element of a Sequence yielded nothing: the successor is the empty
   Sequence, still to be stepped. *)
SequenceStepRuleWitness ==
    /\ last.input.type = "Sequence"
    /\ Len(last.input.queue) = 1
    /\ last.res.ok
    /\ msg = seq(<<>>)
    /\ status = "running"

----------------------------------------------------------------------------
(* C25: a step of Event(e), Fetch(f) or Wait(w) calls the handler of its
   payload once, never fails and always returns a successor: the message the
   handler returned, as it is (a Noop, a Data or a Sequence included). *)
HandlerSuccessorReturned ==
    last.input.type \in {"Event", "Fetch", "Wait"} =>
        /\ last.res.ok
        /\ last.res.err = NoErr
        /\ Len(last.res.log) = 1
        /\ last.res.log[1].kind = last.input.type
        /\ last.res.log[1].p = last.input.p
        /\ IsSome(last.res.val)
        /\ last.res.val = last.res.log[1].ret
        /\ msg = last.res.log[1].ret
        /\ status = "running"

(* A Fetch whose handler returned Noop: the Noop is the successor. *)
HandlerSuccessorReturnedWitness ==
    /\ last.input.type = "Fetch"
    /\ last.res.log[1].ret = Noop
    /\ msg = Noop
    /\ status = "running"

----------------------------------------------------------------------------
(* C26: Retry success path.  When the step of the message under
   Retry{remaining, msg} succeeds, the Retry step returns the result of that
   step unchanged: the successor, if any, is not put under a Retry again, so
   a failure in a later step of the successor ends the workflow in error
   whatever remaining was. *)
RetrySuccessPath ==
    /\ (last.input.type = "Retry" /\ last.res.ok /\ Failures(last.res.log) = <<>>) =>
           /\ last.res \in handle(last.input.msg, last.at)
           /\ msg = last.res.val
           /\ ~Contains(last.input.msg, "Retry") => ~Contains(msg, "Retry")
    /\ (/\ init.type = "Retry"
        /\ ~Contains(init.msg, "Retry")
        /\ trace # <<>>
        /\ ~IsFailure(trace[1])
        /\ Failures(trace) # <<>>)
       => status = "error" /\ Len(Failures(trace)) = 1

(* Retry{2, Sequence[Msg(A), Msg(B)]}: Msg(A) succeeded, the successor Msg(B)
   failed once and the workflow is in error with two retries unused. *)
RetrySuccessPathWitness ==
    /\ init.type = "Retry"
    /\ init.remaining = MaxRetry
    /\ init.msg.type = "Sequence"
    /\ Len(trace) = 2
    /\ ~IsFailure(trace[1])
    /\ IsFailure(trace[2])
    /\ last.input = init.msg.queue[2]
    /\ status = "error"

----------------------------------------------------------------------------
(* The handler calls among the effects. *)
HandlerCalls(effects) == SelectSeq(effects, IsHandlerCall)

(* C27: At most one handler per step.  Whatever the nesting of the message,
   a step calls at most one handler (of an Event, a Fetch, a Msg or a Wait,
   or the receiver of an Aggregate), hence writes through at most one Msg;
   the handler it calls is the one of the last message on the single chain
   of messages the step descends through, one child per level. *)
OneHandlerPerStep ==
    last.input # None =>
        LET calls == HandlerCalls(last.res.log)
            frames == Frames(last.input, last.at)
            leaf == frames[Len(frames)]
        IN  /\ Len(calls) <= 1
            /\ Len(calls) = 1 =>
                  \/ /\ leaf.type \in {"Event", "Fetch", "Msg", "Wait"}
                     /\ calls[1].kind = leaf.type
                     /\ calls[1].p = leaf.p
                  \/ /\ leaf.type = "Aggregate"
                     /\ leaf.queue = <<>>
                     /\ calls[1].kind = "Aggregate"
                     /\ calls[1].p = leaf.receiver
                     /\ calls[1].arg = leaf.data

(* A step through an Aggregate and a Sequence down to one Fetch, other
   elements waiting at both levels. *)
OneHandlerPerStepWitness ==
    /\ Len(Frames(last.input, last.at)) >= 3
    /\ last.input.type = "Aggregate"
    /\ last.input.queue[1].type = "Sequence"
    /\ Len(last.input.queue[1].queue) >= 2
    /\ Len(HandlerCalls(last.res.log)) = 1
    /\ HandlerCalls(last.res.log)[1].kind = "Fetch"

----------------------------------------------------------------------------
(* The calls of the receiver of the initial Aggregate. *)
ReceiverCalls == SelectSeq(trace, LAMBDA e : e.kind = "Aggregate" /\ e.p = init.receiver)

(* The receiver was called at most once, and when a step called it that step
   started from the Aggregate with an empty queue and the message the
   receiver returned took the place of the Aggregate. *)
FiredAtMostOnce ==
    /\ Len(ReceiverCalls) <= 1
    /\ (\E i \in DOMAIN last.res.log :
            last.res.log[i].kind = "Aggregate" /\ last.res.log[i].p = init.receiver)
       => /\ last.input.type = "Aggregate"
          /\ last.input.queue = <<>>
          /\ last.res.val = last.res.log[1].ret
          /\ last.res.val.type # "Aggregate"

(* C28: Aggregate fires exactly once and eventually.  Under repeated stepping
   an Aggregate whose queue elements reduce without error reaches an empty
   queue, the next step calls the receiver, and the receiver is called
   exactly once: from every state of the run the receiver has been or will
   be called, unless an element's step fails or the clock reaches the
   horizon of the model first, and it is never called twice. *)
AggregateFires ==
    /\ [](init.type = "Aggregate" => FiredAtMostOnce)
    /\ (init.type = "Aggregate" /\ ReceiverCalls = <<>>)
          ~> \/ Len(ReceiverCalls) = 1
             \/ status \in {"error", "panicked"}
             \/ clock = MaxClock

(* The receiver called once, with data, before the horizon. *)
AggregateFiresWitness ==
    /\ init.type = "Aggregate"
    /\ Len(init.queue) >= 2
    /\ Len(ReceiverCalls) = 1
    /\ Len(ReceiverCalls[1].arg) >= 2
    /\ clock < MaxClock
    /\ status = "done"

----------------------------------------------------------------------------
(* C29: Timeout covers one step only.  When a non-expired Timeout{d, m} is
   stepped and m yields a successor m', the step returns m' itself and not
   Timeout{d, m'}: the successor holds no Timeout, and its later steps are
   taken whatever the clock, none of them expires. *)
TimeoutOneStepOnly ==
    /\ (/\ last.input.type = "Timeout"
        /\ last.at <= last.input.timeout_timestamp
        /\ last.res.ok
        /\ IsSome(last.res.val))
       => /\ last.res \in handle(last.input.msg, last.at)
          /\ msg = last.res.val
          /\ ~Contains(last.input.msg, "Timeout") => ~Contains(msg, "Timeout")
    /\ (/\ init.type = "Timeout"
        /\ ~Contains(init.msg, "Timeout")
        /\ trace # <<>>
        /\ trace[1].kind # "Expired")
       => \A i \in DOMAIN trace : trace[i].kind # "Expired"

(* A successor of the message under a Timeout stepped after the deadline. *)
TimeoutOneStepOnlyWitness ==
    /\ init.type = "Timeout"
    /\ init.msg.type = "Sequence"
    /\ Len(HandlerCalls(trace)) = 2
    /\ last.input.type = "Msg"
    /\ last.at > init.timeout_timestamp
    /\ Len(last.res.log) = 1

----------------------------------------------------------------------------
(* The steps of the head of the last stepped Sequence that yield a datum and
   have the effects and the duration of that step of the Sequence. *)
HeadDataSteps ==
    IF last.input.type = "Sequence" /\ last.input.queue # <<>> /\ last.res.ok
    THEN {r \in handle(Head(last.input.queue), last.at) :
             /\ r.ok
             /\ IsSome(r.val)
             /\ r.val.type = "Data"
             /\ r.log = last.res.log
             /\ r.clock = last.res.clock}
    ELSE {}

(* A step of a Sequence whose head is a datum drops the datum through the
   stray-data path and keeps the rest. *)
DataHeadReduced ==
    (/\ last.input.type = "Sequence"
     /\ last.input.queue # <<>>
     /\ Head(last.input.queue).type = "Data")
    => last.res = Ok(flatten_seq(seq(Tail(last.input.queue))), last.at,
                     <<Effect("StrayData", Head(last.input.queue).p, <<>>, None, NoErr, 0)>>)

(* C30 as stated: Data inside a Sequence.  When the head of a Sequence steps
   to Data(d) and the Sequence has other elements, the successor is a
   Sequence whose head is Data(d), which the next step drops through the
   stray-data path; only when no other elements remain is the successor
   Data(d) itself. *)
DataInSequenceAnyElements ==
    /\ \A r \in HeadDataSteps :
          IF Tail(last.input.queue) # <<>>
          THEN /\ msg.type = "Sequence"
               /\ msg.queue # <<>>
               /\ Head(msg.queue) = r.val
          ELSE msg = r.val
    /\ DataHeadReduced

(* C30: Data inside a Sequence.  When the head of a Sequence steps to Data(d)
   and the other elements flatten to at least one message, the successor is a
   Sequence whose head is Data(d), which the next step drops through the
   stray-data path; when no other elements remain, or the other elements are
   all empty Sequences, the successor is Data(d) itself. *)
DataInSequence ==
    /\ \A r \in HeadDataSteps :
          IF flatten(seq(Tail(last.input.queue))) # <<>>
          THEN /\ msg.type = "Sequence"
               /\ msg.queue = <<r.val>> \o flatten(seq(Tail(last.input.queue)))
               /\ status = "running"
          ELSE msg = r.val /\ status = "running"
    /\ DataHeadReduced

(* The head of a Sequence yielded a datum, the datum stayed at the head of the
   successor, and the next step dropped it. *)
DataInSequenceWitness ==
    /\ init.type = "Sequence"
    /\ last.input.type = "Sequence"
    /\ Len(last.input.queue) >= 2
    /\ Head(last.input.queue).type = "Data"
    /\ Len(trace) = 2
    /\ trace[1].kind = "Fetch"
    /\ trace[1].ret = Head(last.input.queue)
    /\ trace[2].kind = "StrayData"
    /\ IsSome(msg)

----------------------------------------------------------------------------
(* Sequence normal form: a message that is not a Sequence, or a Sequence that
   does not have exactly one element and holds no Sequence directly. *)
InNormalForm(m) ==
    m.type = "Sequence" =>
        /\ Len(m.queue) # 1
        /\ \A i \in DOMAIN m.queue : m.queue[i].type # "Sequence"

(* C31: Every successor returned by a step of a Sequence or of a Repeat is in
   sequence normal form, whatever the shape of the stepped message and of the
   message a handler returned into the head position. *)
SuccessorInNormalForm ==
    (/\ last.input.type \in {"Sequence", "Repeat"}
     /\ last.res.ok
     /\ IsSome(last.res.val))
    => /\ InNormalForm(last.res.val)
       /\ msg = last.res.val

(* The handler of the head of a Sequence returned a Sequence, which the step
   spliced into the successor. *)
SuccessorInNormalFormWitness ==
    /\ last.input.type = "Sequence"
    /\ Len(last.input.queue) = 2
    /\ Head(last.input.queue).type = "Fetch"
    /\ Len(last.res.log) = 1
    /\ last.res.log[1].ret.type = "Sequence"
    /\ msg.type = "Sequence"
    /\ Len(msg.queue) = 3

----------------------------------------------------------------------------
RECURSIVE Counters(_)
(* The counters a message holds: remaining of every Retry and times of every
   Repeat in it, each with the message it counts for. *)
Counters(m) ==
    CASE m.type = "Retry" ->
            {[kind |-> "Retry", n |-> m.remaining, of |-> m.msg]} \cup Counters(m.msg)
      [] m.type = "Repeat" ->
            {[kind |-> "Repeat", n |-> m.times, of |-> m.msg]} \cup Counters(m.msg)
      [] m.type = "Timeout" -> Counters(m.msg)
      [] m.type \in {"Sequence", "Aggregate"} ->
            UNION {Counters(m.queue[i]) : i \in DOMAIN m.queue}
      [] OTHER -> {}

(* C32: Counters never underflow.  Every counter of the current message is
   within 0 and the value the workflow started it with: remaining of a Retry
   is decremented, by one, only by a failed attempt at remaining > 0, times
   of a Repeat, by one, only by an unfolding at times > 0, and a counter at 0
   is not decremented: the Retry returns the error, the Repeat nothing. *)
CountersNeverUnderflow ==
    /\ IsSome(msg) =>
          \A c \in Counters(msg) :
              /\ c.n >= 0
              /\ \E d \in Counters(init) : d.kind = c.kind /\ d.of = c.of /\ c.n <= d.n
    /\ \A i \in DOMAIN last.res.log :
          LET e == last.res.log[i]
          IN  /\ e.kind = "RetryWarn" =>
                    \E c \in Counters(last.input) :
                        /\ c.kind = "Retry" /\ c.of = e.ret
                        /\ c.n > 0 /\ e.left = c.n - 1
                        /\ \E d \in Counters(msg) :
                               d = [kind |-> "Retry", n |-> c.n - 1, of |-> c.of]
              /\ e.kind = "RetryFailed" =>
                    \E c \in Counters(last.input) :
                        c.kind = "Retry" /\ c.of = e.ret /\ c.n = 0
    /\ last.input.type = "Repeat" =>
          IF last.input.times = 0
          THEN last.res.val = None
          ELSE \E c \in Counters(last.res.val) :
                  c = [kind |-> "Repeat", n |-> last.input.times - 1, of |-> last.input.msg]

(* A Retry and a Repeat that reached 0 and were stepped there. *)
CountersNeverUnderflowWitness ==
    \/ /\ init.type = "Retry"
       /\ init.remaining = MaxRetry
       /\ last.input = retry(0, init.msg)
       /\ status = "error"
    \/ /\ init.type = "Repeat"
       /\ init.times = MaxTimes
       /\ last.input = repeat(0, init.msg)
       /\ status = "done"

----------------------------------------------------------------------------
(* C33: Repeat has no distinguished infinite count.  A step of
   Repeat{times: n, msg} with n > 0, the largest u64 included, returns msg
   followed by Repeat{times: n - 1, msg}; so a run from a Repeat ends, unless
   the clock reaches the horizon first: every Repeat has a finite number of
   unfoldings. *)
RepeatIsFinite ==
    /\ []((last.input.type = "Repeat" /\ last.input.times > 0) =>
             /\ last.res = Ok(flatten_seq(seq(<<last.input.msg,
                                                repeat(last.input.times - 1,
                                                       last.input.msg)>>)),
                              last.at, <<>>)
             /\ [kind |-> "Repeat", n |-> last.input.times - 1, of |-> last.input.msg]
                    \in Counters(msg))
    /\ (init.type = "Repeat") ~> (status # "running" \/ clock = MaxClock)

(* A Repeat that started with the largest count has been unfolded to the
   end. *)
RepeatIsFiniteWitness ==
    /\ init = repeat(U64Modulus - 1, Noop)
    /\ last.input = repeat(0, Noop)
    /\ status = "done"
    /\ clock < MaxClock

----------------------------------------------------------------------------
(* Whether a step of m started at t calls no handler by the arm of m alone:
   Noop, Data, DeferUntil, Repeat, the empty Sequence, an expired Timeout. *)
IsHandlerFree(m, t) ==
    \/ m.type \in {"Noop", "Data", "DeferUntil", "Repeat"}
    \/ m.type = "Sequence" /\ m.queue = <<>>
    \/ m.type = "Timeout" /\ t > m.timeout_timestamp

(* C34: Handler-free steps.  A step of Noop, Data, DeferUntil (either point),
   Repeat (any count), an empty Sequence or an expired Timeout, at top level
   or reached through the combinators above it, calls no handler, the only
   way a step reads or changes the Store; it takes no time either, except
   the one-second poll of an absolute deferral that is not due. *)
HandlerFreeSteps ==
    last.input # None =>
        LET frames == Frames(last.input, last.at)
            leaf == frames[Len(frames)]
        IN  IsHandlerFree(leaf, last.at) =>
               /\ HandlerCalls(last.res.log) = <<>>
               /\ \A i \in DOMAIN last.res.log :
                      last.res.log[i].kind \in {"StrayData", "Expired"}
               /\ last.res.clock =
                     IF leaf.type = "DeferUntil" /\ leaf.point = "Absolute"
                           /\ last.at < leaf.seconds
                     THEN last.at + SleepSeconds
                     ELSE last.at

(* A Repeat over a handler call unfolded after an earlier handler call: the
   unfolding itself calls nothing. *)
HandlerFreeStepsWitness ==
    /\ init.type = "Repeat"
    /\ init.msg.type = "Msg"
    /\ last.input.type = "Repeat"
    /\ last.input.times > 0
    /\ Len(HandlerCalls(trace)) = 1
    /\ last.res.log = <<>>
    /\ msg.type = "Sequence"

----------------------------------------------------------------------------
(* The messages a flatten_seq result stands for: the elements of a Sequence,
   or the one message. *)
Elements(m) == IF m.type = "Sequence" THEN m.queue ELSE <<m>>

IsHolder(m) == m.type \in {"Repeat", "Retry", "Timeout", "Aggregate"}

(* C35: flatten_seq rewrites only directly nested Sequences.  Every Repeat,
   Retry, Timeout and Aggregate reached through directly nested Sequences is
   in the result exactly as it was, with the Sequences it holds untouched;
   the result has one element for each message reached that is not a
   Sequence, so empty Sequences contribute none, and an input that flattens
   to nothing gives the empty Sequence. *)
FlattenLeavesHoldersAlone ==
    fstage >= 1 =>
        LET out == Elements(fout[1])
        IN  /\ SelectSeq(out, IsHolder) = SelectSeq(Leaves(fin), IsHolder)
            /\ Len(out) = Len(Leaves(fin))
            /\ Leaves(fin) = <<>> => fout[1] = seq(<<>>)
            /\ IsHolder(fin) => fout[1] = fin
            /\ fin = HolderExample =>
                  fout[1] = seq(<<retry(1, seq(<<seq(<<defer(1)>>)>>)),
                                  timeout(2, seq(<<defer(1)>>)),
                                  aggregate(<<seq(<<seq(<<>>)>>)>>, <<>>, P("R", 0))>>)

FlattenLeavesHoldersAloneWitness ==
    /\ fstage >= 1
    /\ fin = HolderExample
    /\ Len(Elements(fout[1])) = 3
    /\ \A i \in 1..3 : IsHolder(fout[1].queue[i])

----------------------------------------------------------------------------
(* Whether s is the beginning of t. *)
IsPrefix(s, t) == Len(s) <= Len(t) /\ SubSeq(t, 1, Len(s)) = s

(* The data the steps of the head of the last stepped Aggregate yield to it,
   for the steps that have the effects and the duration of the last step. *)
CapturedByLastStep ==
    IF last.input.type = "Aggregate" /\ last.input.queue # <<>> /\ last.res.ok
    THEN {r.val.p : r \in {x \in handle(Head(last.input.queue), last.at) :
                              /\ x.ok
                              /\ IsSome(x.val)
                              /\ x.val.type = "Data"
                              /\ x.log = last.res.log
                              /\ x.clock = last.res.clock}}
    ELSE {}

(* C36: Aggregate data order.  A step of an Aggregate never removes or
   reorders the data already present and appends a newly captured datum
   after them, so the data of the Aggregate always begin with its initial
   data and the receiver is given the initial data followed by the captured
   data in the order of capture; when every element of the queue reduces to
   Data in one step, that is the order of the queue. *)
AggregateDataOrder ==
    /\ (last.input.type = "Aggregate" /\ last.input.queue # <<>> /\ last.res.ok) =>
          /\ msg.type = "Aggregate"
          /\ IsPrefix(last.input.data, msg.data)
          /\ IF CapturedByLastStep = {}
             THEN msg.data = last.input.data
             ELSE \E d \in CapturedByLastStep : msg.data = Append(last.input.data, d)
    /\ (init.type = "Aggregate" /\ IsSome(msg) /\ msg.type = "Aggregate") =>
          IsPrefix(init.data, msg.data)
    /\ (init.type = "Aggregate" /\ ReceiverCalls # <<>>) =>
          LET given == ReceiverCalls[1].arg
          IN  /\ IsPrefix(init.data, given)
              /\ (/\ \A i \in DOMAIN init.queue : init.queue[i].type = "Fetch"
                  /\ \A i \in DOMAIN trace :
                        trace[i].kind = "Fetch" => trace[i].ret.type = "Data")
                 => given = init.data
                              \o [i \in DOMAIN init.queue |-> P(init.queue[i].p.n, 0)]

(* The receiver was given the initial datum, then the data of the two Fetch
   elements in the order of the queue. *)
AggregateDataOrderWitness ==
    /\ init.type = "Aggregate"
    /\ init.data = <<P("Z", 0)>>
    /\ ReceiverCalls # <<>>
    /\ ReceiverCalls[1].arg = <<P("Z", 0), P("A", 0), P("B", 0)>>
    /\ Len(trace) = 3

----------------------------------------------------------------------------
(* The map of the Store that holds the chains of a chain type: a
   Wasm-wrapped chain is registered as the chain it wraps. *)
MapFor(Hc) ==
    CASE Hc \in {"Union", "Wasm<Union>"} -> "union"
      [] Hc \in {"Cosmos", "Wasm<Cosmos>"} -> "cosmos"
      [] Hc = "Evm<Minimal>" -> "evm_minimal"
      [] Hc = "Evm<Mainnet>" -> "evm_mainnet"

(* C37: Store lookup.  get_chain for a chain id that is not registered in the
   map for that chain type panics, and gives the registered chain otherwise:
   it has no error value.  The lookups for Union and for Wasm<Union> read the
   same map, so for every chain id both panic or both give the same chain,
   the second one wrapped; Wasm<Cosmos> likewise gives the chain of the
   cosmos map. *)
StoreLookup ==
    /\ lookup # None =>
          LET registered == chains[MapFor(lookup.Hc)][lookup.chain_id]
          IN  IF registered = Absent
              THEN lookup.res = LookupPanic
              ELSE /\ ~lookup.res.panicked
                   /\ lookup.res.chain = registered
                   /\ lookup.res.wasm = (lookup.Hc \in {"Wasm<Union>", "Wasm<Cosmos>"})
    /\ chains # None =>
          \A chain_id \in ChainIds :
              LET u == get_chain(chains, "Union", chain_id)
                  w == get_chain(chains, "Wasm<Union>", chain_id)
                  c == get_chain(chains, "Wasm<Cosmos>", chain_id)
              IN  /\ w.panicked = u.panicked
                  /\ w.chain = u.chain
                  /\ c.panicked = (chains.cosmos[chain_id] = Absent)
                  /\ c.chain = chains.cosmos[chain_id]

(* After a lookup for Union that gave a chain, the lookup of the same id for
   Wasm<Union> panics nowhere and a lookup for Wasm<Cosmos> of an id that only
   the other maps hold panics. *)
StoreLookupWitness ==
    /\ lookup # None
    /\ lookup.Hc = "Wasm<Cosmos>"
    /\ lookup.res.panicked
    /\ chains.union[lookup.chain_id] # Absent
    /\ chains.evm_minimal[lookup.chain_id] # Absent
    /\ chains.evm_mainnet[lookup.chain_id] # Absent
    /\ get_chain(chains, "Wasm<Union>", lookup.chain_id).chain
          = get_chain(chains, "Union", lookup.chain_id).chain

----------------------------------------------------------------------------
(* C38: Extraction from the any-type is lossless on failure.  Converting a
   queue message to its Data payload gives the payload exactly when the
   message is Data and the message itself as the error otherwise.
   Converting an Identified<Hc, Tr, T> into the any-type and back to the
   same type gives the chain_id and the payload it started with; asked back
   as another light client or another variant, the conversion fails and the
   error is the any-type value it was given. *)
ExtractionLossless ==
    cin # None =>
        /\ (cin.kind = "msg" /\ cout # None) =>
              IF cin.v.type = "Data"
              THEN cout.ok /\ cout.v = cin.v.p
              ELSE ~cout.ok /\ cout.v = cin.v
        /\ (cin.kind = "identified" /\ cout # None) =>
              IF /\ cin.to.Hc = cin.v.Hc
                 /\ cin.to.Tr = cin.v.Tr
                 /\ cin.to.variant = cin.variant
              THEN /\ cout.ok
                   /\ cout.v.chain_id = cin.v.chain_id
                   /\ cout.v.t = cin.v.t
                   /\ cout.v = cin.v
              ELSE /\ ~cout.ok
                   /\ cout.v = cany
                   /\ cout.v.chain_id = cin.v.chain_id
                   /\ cout.v.t = Enum(cin.variant, cin.v.t)

(* A value asked back as the right light client but another variant: the
   error is the any-type value. *)
ExtractionLosslessWitness ==
    /\ cin # None
    /\ cin.kind = "identified"
    /\ cout # None
    /\ cin.to.Hc = cin.v.Hc
    /\ cin.to.Tr = cin.v.Tr
    /\ cin.to.variant # cin.variant
    /\ ~cout.ok
    /\ cout.v = cany

====
